---------------------------- MODULE Spec2Model ----------------------------
(***************************************************************************)
(* Section locator, field parsers and record assembler of the scholarship  *)
(* summarisation pipeline (src/locate_sections.py, src/parse_sections.py). *)
(*                                                                         *)
(* Texts are TLA+ strings; offsets are 0-based as in Python, so the        *)
(* character at offset p of s is SubSeq(s, p+1, p+1) and the slice         *)
(* s[a:b] is SubSeq(s, a+1, b).  Regular expressions are syntax trees      *)
(* interpreted by a backtracking matcher with Python's priorities          *)
(* (leftmost match, alternatives in order, greedy and lazy repetition).    *)
(*                                                                         *)
(* TLC stores the characters of a state's strings as single bytes, so a    *)
(* string held in a state must be ASCII.  Every string literal of the      *)
(* source is written here as in the source and passed through Str, which   *)
(* replaces each non-ASCII character by an ASCII character of its own      *)
(* that occurs nowhere else: the texts of the model are the texts of the   *)
(* program under a one-to-one renaming of characters, e.g. "Cuantía" is    *)
(* held as "Cuant|a" and "€" as "$".                                       *)
(***************************************************************************)
EXTENDS Integers, Sequences, FiniteSets, TLC

VARIABLES
    text,            \* the document text handed to locate_sections
    pc,              \* position in the pipeline
    matches,         \* locate_sections: list(re.finditer(...)), as <<start, end>> pairs
    i,               \* locate_sections: index of the for loop over matches
    found_sections,  \* locate_sections: the mapping being built
    blocks,          \* history: per processed match, its block's offsets and the keys
                     \* whose content the turn changed
    data,            \* parse_sections.main: the section mapping loaded from JSON
    final_info,      \* parse_sections.main: the assembled record
    result,          \* the mapping a field parser returned, when one is run alone
    error,           \* the exception raised, "none" when none
    stage,           \* the script whose batch loop runs, "none" when none does
    listing,         \* os.listdir of the script's input folder: names and file states
    position,        \* how many entries of the listing the for loop has gone through
    outputs,         \* the files of the script's output folder: name and content
    log,             \* the error messages printed, in order
    calls            \* the local state of each call of locate_sections in progress

vars == <<text, pc, matches, i, found_sections, blocks, data, final_info, result, error,
          stage, listing, position, outputs, log, calls>>

\* the state of a batch loop
batch == <<stage, listing, position, outputs, log>>

\* the state of the pipeline for one document
document == <<text, matches, i, found_sections, blocks, data, final_info, result>>

\* no batch loop runs and no call is in progress
NoBatch ==
    /\ stage = "none"
    /\ listing = <<>>
    /\ position = 0
    /\ outputs = <<>>
    /\ log = <<>>
    /\ calls = <<>>

None == "None"

---------------------------------------------------------------------------
(* Characters and str methods *)

Chars(s) == [k \in 1..Len(s) |-> SubSeq(s, k, k)]

\* a character of the texts, as the model holds it: each non-ASCII character has
\* an ASCII character of its own
StrChar(c) ==
    CASE c = "á" -> "@"
      [] c = "é" -> "&"
      [] c = "í" -> "|"
      [] c = "ó" -> "*"
      [] c = "ú" -> "~"
      [] c = "ñ" -> "#"
      [] c = "ü" -> "^"
      [] c = "Á" -> "!"
      [] c = "É" -> "="
      [] c = "Í" -> ";"
      [] c = "Ó" -> "+"
      [] c = "Ú" -> "<"
      [] c = "Ñ" -> ">"
      [] c = "Ü" -> "?"
      [] c = "º" -> "{"
      [] c = "€" -> "$"
      [] OTHER -> c

RECURSIVE StrRange(_, _, _)
StrRange(s, a, b) ==
    IF b <= a THEN ""
    ELSE IF b = a + 1 THEN StrChar(SubSeq(s, b, b))
    ELSE LET mid == (a + b) \div 2
         IN  StrRange(s, a, mid) \o StrRange(s, mid, b)

\* a string literal of the source, as the model holds it
Str(s) == StrRange(s, 0, Len(s))

\* the letters that have two cases: A..Z and Á É Í Ó Ú Ñ Ü, a..z and á é í ó ú ñ ü
UpperLetters == "ABCDEFGHIJKLMNOPQRSTUVWXYZ!=;+<>?"
LowerLetters == "abcdefghijklmnopqrstuvwxyz@&|*~#^"

UpperSet == {SubSeq(UpperLetters, k, k) : k \in 1..Len(UpperLetters)}
LowerSet == {SubSeq(LowerLetters, k, k) : k \in 1..Len(LowerLetters)}
DigitSet == {"0", "1", "2", "3", "4", "5", "6", "7", "8", "9"}
SpaceSet == {" ", "\n", "\t", "\r", "\f"}
\* the characters of \w: str.isalnum() holds of "º" (U+00BA)
WordSet == UpperSet \cup LowerSet \cup DigitSet \cup {StrChar("º"), "_"}

LowerMap ==
    [c \in UpperSet |->
        LET k == CHOOSE k \in 1..Len(UpperLetters) : SubSeq(UpperLetters, k, k) = c
        IN  SubSeq(LowerLetters, k, k)]

\* str.lower() of one character
LowerChar(c) == IF c \in UpperSet THEN LowerMap[c] ELSE c

\* the characters a+1..b of s lower-cased (by halves, to keep the recursion shallow)
RECURSIVE LowerRange(_, _, _)
LowerRange(s, a, b) ==
    IF b <= a THEN ""
    ELSE IF b = a + 1 THEN LowerChar(SubSeq(s, b, b))
    ELSE LET mid == (a + b) \div 2
         IN  LowerRange(s, a, mid) \o LowerRange(s, mid, b)

\* str.lower()
Lower(s) == LowerRange(s, 0, Len(s))

\* s[a:b] for 0 <= a, b <= len(s)
Slice(s, a, b) == SubSeq(s, a + 1, b)

RECURSIVE LStripAt(_, _)
LStripAt(s, a) ==
    IF a < Len(s) /\ SubSeq(s, a + 1, a + 1) \in SpaceSet THEN LStripAt(s, a + 1) ELSE a

RECURSIVE RStripAt(_, _, _)
RStripAt(s, a, b) ==
    IF b > a /\ SubSeq(s, b, b) \in SpaceSet THEN RStripAt(s, a, b - 1) ELSE b

\* str.strip()
Strip(s) == LET a == LStripAt(s, 0) IN Slice(s, a, RStripAt(s, a, Len(s)))

\* sub in s
Contains(s, sub) ==
    \E a \in 0..(Len(s) - Len(sub)) : Slice(s, a, a + Len(sub)) = sub

\* s.find(sub): the lowest offset at which sub occurs in s, -1 when it does not
Find(s, sub) ==
    IF Contains(s, sub)
    THEN CHOOSE a \in 0..(Len(s) - Len(sub)) :
            /\ Slice(s, a, a + Len(sub)) = sub
            /\ \A b \in 0..(a - 1) : Slice(s, b, b + Len(sub)) # sub
    ELSE -1

\* s.replace(old, "") for a non-empty old
RECURSIVE Remove(_, _)
Remove(s, old) ==
    LET a == Find(s, old)
    IN  IF a = -1 THEN s
        ELSE Slice(s, 0, a) \o Remove(Slice(s, a + Len(old), Len(s)), old)

\* Python dicts
\* {} and d[k] = v on a dict d (a function on its keys)
EmptyDict == <<>>
Put(d, k, v) == [x \in DOMAIN d \cup {k} |-> IF x = k THEN v ELSE d[x]]
\* d without its key k (d.pop(k, None) leaves this)
Without(d, k) == [x \in DOMAIN d \ {k} |-> d[x]]

---------------------------------------------------------------------------
(* Regular expressions (module re): syntax trees and a backtracking matcher *)

Chr(c) == [t |-> "chr", c |-> StrChar(c)]
\* a literal string, as a sequence of one node
Lit(str) == <<[t |-> "lit", cs |-> Chars(Str(str))]>>
\* a character class [...]; an atom is a character or one of "\\d", "\\w", "\\s"
Cls(atoms) == [t |-> "cls", of |-> {Str(a) : a \in atoms}]
Dot == [t |-> "dot"]
\* x{min,max} (greedy) or x{min,max}? (lazy) of a one-character node x; max = -1: unbounded
Rep(x, min, max, lazy) == [t |-> "rep", x |-> x, min |-> min, max |-> max, lazy |-> lazy]
\* a|b|c and (?:...)
Alt(alts) == [t |-> "alt", alts |-> alts]
\* the capturing group number n
Grp(n, body) == [t |-> "grp", n |-> n, body |-> body]
\* (?:body)?
Opt(body) == Alt(<<body, <<>>>>)
\* (?=body)
Look(body) == [t |-> "look", body |-> body]
Eol == [t |-> "eol"]
Bol == [t |-> "bol"]

\* re.IGNORECASE, re.DOTALL, re.MULTILINE
Flags(ic, ds, ml) == [I |-> ic, S |-> ds, M |-> ml]

MaxGroups == 4
NoCaps == [g \in 1..MaxGroups |-> <<-1, -1>>]
Fail == [ok |-> FALSE]

AtomMatch(a, c, fl) ==
    CASE a = "\\d" -> c \in DigitSet
      [] a = "\\w" -> c \in WordSet
      [] a = "\\s" -> c \in SpaceSet
      [] OTHER -> IF fl.I THEN LowerChar(c) = LowerChar(a) ELSE c = a

\* whether the one-character node n accepts the character c
CharMatch(n, c, fl) ==
    CASE n.t = "chr" -> IF fl.I THEN LowerChar(c) = LowerChar(n.c) ELSE c = n.c
      [] n.t = "cls" -> \E a \in n.of : AtomMatch(a, c, fl)
      [] n.t = "dot" -> fl.S \/ c # "\n"

\* whether the literal characters cs occur in s at offset p
LitMatch(cs, p, s, fl) ==
    /\ p + Len(cs) <= Len(s)
    /\ \A k \in 1..Len(cs) :
          IF fl.I THEN LowerChar(s[p + k]) = LowerChar(cs[k]) ELSE s[p + k] = cs[k]

\* how many consecutive characters of s at the offsets a..b-1 the node x accepts,
\* counted from a (by halves, to keep the recursion shallow)
RECURSIVE RunLength(_, _, _, _, _)
RunLength(x, a, b, s, fl) ==
    IF b <= a THEN 0
    ELSE IF b = a + 1 THEN (IF CharMatch(x, s[b], fl) THEN 1 ELSE 0)
    ELSE LET mid == (a + b) \div 2
             l == RunLength(x, a, mid, s, fl)
         IN  IF l < mid - a THEN l ELSE l + RunLength(x, mid, b, s, fl)

\* Match(nodes, p, caps, s, fl): the first way, in backtracking order, in which the
\* node sequence matches the characters s from offset p; Fail when there is none.
RECURSIVE Match(_, _, _, _, _)
RECURSIVE RepTry(_, _, _, _, _, _, _, _)
RECURSIVE AltTry(_, _, _, _, _, _, _)

\* a repetition that may take lo..hi characters from offset p: the first count, from
\* lo upwards when lazy and from hi downwards when greedy, after which the rest matches
RepTry(rest, p, lo, hi, lazy, caps, s, fl) ==
    IF lo > hi THEN Fail
    ELSE IF lo = hi THEN Match(rest, p + lo, caps, s, fl)
    ELSE LET mid == (lo + hi) \div 2
             first == IF lazy THEN RepTry(rest, p, lo, mid, lazy, caps, s, fl)
                      ELSE RepTry(rest, p, mid + 1, hi, lazy, caps, s, fl)
         IN  IF first.ok THEN first
             ELSE IF lazy THEN RepTry(rest, p, mid + 1, hi, lazy, caps, s, fl)
             ELSE RepTry(rest, p, lo, mid, lazy, caps, s, fl)

AltTry(alts, k, rest, p, caps, s, fl) ==
    IF k > Len(alts) THEN Fail
    ELSE LET r == Match(alts[k] \o rest, p, caps, s, fl)
         IN  IF r.ok THEN r ELSE AltTry(alts, k + 1, rest, p, caps, s, fl)

Match(nodes, p, caps, s, fl) ==
    IF Len(nodes) = 0 THEN [ok |-> TRUE, end |-> p, caps |-> caps]
    ELSE
    LET n == Head(nodes)
        rest == Tail(nodes)
    IN  CASE n.t \in {"chr", "cls", "dot"} ->
                IF p < Len(s) /\ CharMatch(n, s[p + 1], fl)
                THEN Match(rest, p + 1, caps, s, fl) ELSE Fail
          [] n.t = "lit" ->
                IF LitMatch(n.cs, p, s, fl)
                THEN Match(rest, p + Len(n.cs), caps, s, fl) ELSE Fail
          [] n.t = "rep" ->
                LET last == IF n.max = -1 \/ p + n.max > Len(s) THEN Len(s) ELSE p + n.max
                    hi == RunLength(n.x, p, last, s, fl)
                IN  RepTry(rest, p, n.min, hi, n.lazy, caps, s, fl)
          [] n.t = "alt" -> AltTry(n.alts, 1, rest, p, caps, s, fl)
          [] n.t = "grp" ->
                Match(n.body \o <<[t |-> "gend", n |-> n.n, from |-> p]>> \o rest,
                      p, caps, s, fl)
          [] n.t = "gend" ->
                Match(rest, p, [caps EXCEPT ![n.n] = <<n.from, p>>], s, fl)
          [] n.t = "look" ->
                IF Match(n.body, p, caps, s, fl).ok
                THEN Match(rest, p, caps, s, fl) ELSE Fail
          [] n.t = "eol" ->
                IF \/ p = Len(s)
                   \/ fl.M /\ s[p + 1] = "\n"
                   \/ ~fl.M /\ p = Len(s) - 1 /\ s[p + 1] = "\n"
                THEN Match(rest, p, caps, s, fl) ELSE Fail
          [] n.t = "bol" ->
                IF p = 0 \/ (fl.M /\ s[p] = "\n")
                THEN Match(rest, p, caps, s, fl) ELSE Fail

\* the leftmost match starting at one of the offsets a..b
RECURSIVE SearchIn(_, _, _, _, _)
SearchIn(re, s, fl, a, b) ==
    IF a > b THEN Fail
    ELSE IF a = b
    THEN LET r == Match(re, a, NoCaps, s, fl)
         IN  IF r.ok THEN [ok |-> TRUE, start |-> a, end |-> r.end, caps |-> r.caps]
             ELSE Fail
    ELSE LET mid == (a + b) \div 2
             l == SearchIn(re, s, fl, a, mid)
         IN  IF l.ok THEN l ELSE SearchIn(re, s, fl, mid + 1, b)

\* the leftmost match starting at offset from or later
SearchFrom(re, s, fl, from) == SearchIn(re, s, fl, from, Len(s))

\* re.search(re, str, flags)
Search(re, str, fl) == SearchFrom(re, Chars(str), fl, 0)

\* re.match(re, str, flags)
MatchAtStart(re, str, fl) ==
    LET r == Match(re, 0, NoCaps, Chars(str), fl)
    IN  IF r.ok THEN [ok |-> TRUE, start |-> 0, end |-> r.end, caps |-> r.caps] ELSE Fail

\* the non-overlapping matches from left to right (every pattern iterated here needs
\* at least one character, so a match never is empty)
RECURSIVE FindFrom(_, _, _, _)
FindFrom(re, s, fl, from) ==
    LET m == SearchFrom(re, s, fl, from)
    IN  IF ~m.ok THEN <<>>
        ELSE <<m>> \o FindFrom(re, s, fl, IF m.end > m.start THEN m.end ELSE m.end + 1)

\* list(re.finditer(re, str, flags))
FindIter(re, str, fl) == FindFrom(re, Chars(str), fl, 0)

\* m.group(g) of a match in str; None for a group that did not take part
Group(m, g, str) ==
    IF g = 0 THEN Slice(str, m.start, m.end)
    ELSE IF m.caps[g][1] = -1 THEN None
    ELSE Slice(str, m.caps[g][1], m.caps[g][2])

---------------------------------------------------------------------------
(* src/locate_sections.py *)

\* the keys of SECTIONS in declaration (dict) order
SectionKeys == <<"requisitos", "cuantias", "plazo", "solicitud", "excelencia">>

SECTIONS ==
    [requisitos |-> <<"REQUISITOS", "REQUISITOS DE LOS SOLICITANTES">>,
     cuantias   |-> <<Str("CUANTÍAS"), Str("CUANTÍA"), "IMPORTE", Str("artículo")>>,
     plazo      |-> <<"PLAZO", "PLAZO DE SOLICITUD", Str("PLAZO DE PRESENTACIÓN")>>,
     solicitud  |-> <<"SOLICITUD", Str("FORMA DE PRESENTACIÓN"), Str("CÓMO SOLICITAR")>>,
     excelencia |-> <<"EXCELENCIA", Str("EXCELENCIA ACADÉMICA"),
                      Str("CUANTÍA FIJA LIGADA A LA EXCELENCIA")>>]

\* mutant of EmptySections: the content starts as the heading
EmptySectionsTitled ==
    [key \in DOMAIN SECTIONS |-> <<[heading |-> key, content |-> key]>>]

\* found_sections as initialised: one {"heading", "content"} entry per key
EmptySections ==
    [key \in DOMAIN SECTIONS |-> <<[heading |-> key, content |-> ""]>>]

RECURSIVE TitlesFrom(_)
TitlesFrom(k) ==
    IF k > Len(SectionKeys) THEN <<>> ELSE SECTIONS[SectionKeys[k]] \o TitlesFrom(k + 1)

\* all_titles: the synonyms of all sections, in order
all_titles == TitlesFrom(1)

\* pattern = "|".join(all_titles); no synonym holds a regex metacharacter
pattern == <<Alt([k \in 1..Len(all_titles) |-> Lit(all_titles[k])])>>

\* list(re.finditer(pattern, text, flags=re.IGNORECASE)), as start and end offsets
HeadingMatches(txt) ==
    LET ms == FindIter(pattern, txt, Flags(TRUE, FALSE, FALSE))
    IN  [k \in 1..Len(ms) |-> [start |-> ms[k].start, end |-> ms[k].end]]

\* mutant of SectionOf: the synonym is compared without syn.lower()
RECURSIVE SectionOfCased(_, _)
SectionOfCased(heading_lower, k) ==
    IF k > Len(SectionKeys) THEN None
    ELSE LET key == SectionKeys[k]
         IN  IF \E j \in 1..Len(SECTIONS[key]) : Contains(heading_lower, SECTIONS[key][j])
             THEN key
             ELSE SectionOfCased(heading_lower, k + 1)

\* the for loop over SECTIONS.items(): the first key, from the k-th on, one of whose
\* synonyms, lower-cased, occurs in heading_lower; None when the loop ends without break
RECURSIVE SectionOf(_, _)
SectionOf(heading_lower, k) ==
    IF k > Len(SectionKeys) THEN None
    ELSE LET key == SectionKeys[k]
         IN  IF \E j \in 1..Len(SECTIONS[key]) :
                    Contains(heading_lower, Lower(SECTIONS[key][j]))
             THEN key
             ELSE SectionOf(heading_lower, k + 1)

\* mutant of BlockEnd: every block runs to the end of the text
BlockEndToEof(ms, k, txt) == Len(txt)

\* end of the block of match number k (0-based) of ms in txt
BlockEnd(ms, k, txt) == IF k + 1 < Len(ms) THEN ms[k + 2].start ELSE Len(txt)

\* mutant of SectionText: the block is not stripped
SectionTextRaw(ms, k, txt) == Slice(txt, ms[k + 1].start, BlockEnd(ms, k, txt))

\* section_text = text[start:end].strip()
SectionText(ms, k, txt) == Strip(Slice(txt, ms[k + 1].start, BlockEnd(ms, k, txt)))

\* mutant of AddContent: a section keeps the span of its first heading only
AddContentOnce(fs, key, section_text) ==
    IF fs[key][1].content # "" THEN fs
    ELSE [fs EXCEPT ![key] = <<[@[1] EXCEPT !.content = @ \o "\n\n" \o section_text]>>]

\* found_sections[key][0]["content"] += "\n\n" + section_text
AddContent(fs, key, section_text) ==
    [fs EXCEPT ![key] = <<[@[1] EXCEPT !.content = @ \o "\n\n" \o section_text]>>]

\* one turn of the for loop over matches, for match number k (0-based)
StepSections(fs, ms, k, txt) ==
    LET heading_text == Slice(txt, ms[k + 1].start, ms[k + 1].end)
        key == SectionOf(Lower(heading_text), 1)
    IN  IF key = None THEN fs ELSE AddContent(fs, key, SectionText(ms, k, txt))

\* the post-filter of cuantias
HasEuros(content) ==
    LET content_lower == Lower(content)
    IN  Contains(content_lower, Str("€")) \/ Contains(content_lower, "euros")

\* mutant of FilterCuantias: the key is deleted instead of its content emptied
FilterCuantiasDrop(fs) ==
    IF ~HasEuros(fs["cuantias"][1].content) THEN Without(fs, "cuantias") ELSE fs

\* mutant of FilterCuantias: the rule is not applied
FilterCuantiasSkip(fs) == fs

FilterCuantias(fs) ==
    IF ~HasEuros(fs["cuantias"][1].content)
    THEN [fs EXCEPT !["cuantias"] = <<[@[1] EXCEPT !.content = ""]>>]
    ELSE fs

RECURSIVE LoopSections(_, _, _, _)
LoopSections(fs, ms, k, txt) ==
    IF k >= Len(ms) THEN fs ELSE LoopSections(StepSections(fs, ms, k, txt), ms, k + 1, txt)

\* locate_sections(text), start to return
locate_sections(txt) ==
    FilterCuantias(LoopSections(EmptySections, HeadingMatches(txt), 0, txt))

---------------------------------------------------------------------------
(* Python values used by src/parse_sections.py *)

LineBreaks == {"\n", "\r", "\f"}

\* str.splitlines(): lines end at "\n", "\r", "\r\n" or a form feed
RECURSIVE SplitLines(_)
SplitLines(s) ==
    IF s = "" THEN <<>>
    ELSE IF \A k \in 1..Len(s) : SubSeq(s, k, k) \notin LineBreaks THEN <<s>>
    ELSE LET b == CHOOSE k \in 1..Len(s) :
                     /\ SubSeq(s, k, k) \in LineBreaks
                     /\ \A j \in 1..(k - 1) : SubSeq(s, j, j) \notin LineBreaks
             w == IF SubSeq(s, b, b) = "\r" /\ b < Len(s) /\ SubSeq(s, b + 1, b + 1) = "\n"
                  THEN 2 ELSE 1
         IN  <<SubSeq(s, 1, b - 1)>> \o SplitLines(SubSeq(s, b + w, Len(s)))

\* sep.join(lines[k:]) for k counted from 1
RECURSIVE JoinFrom(_, _, _)
JoinFrom(lines, k, sep) ==
    IF k > Len(lines) THEN ""
    ELSE IF k = Len(lines) THEN lines[k]
    ELSE lines[k] \o sep \o JoinFrom(lines, k + 1, sep)

DigitValue(c) == CHOOSE v \in 0..9 : SubSeq("0123456789", v + 1, v + 1) = c

\* int(str) of a string of digits
RECURSIVE ToInt(_)
ToInt(str) ==
    IF Len(str) = 0 THEN 0
    ELSE 10 * ToInt(SubSeq(str, 1, Len(str) - 1)) + DigitValue(SubSeq(str, Len(str), Len(str)))

\* pieces the patterns share
Digit == Cls({"\\d"})
NumChar == Cls({"\\d", ".", ","})
Ws == Cls({"\\s"})
Star(x) == Rep(x, 0, -1, FALSE)
Plus(x) == Rep(x, 1, -1, FALSE)
Lazy(x) == Rep(x, 0, -1, TRUE)
\* \d[\d\.,]+
Amount == <<Digit, Plus(NumChar)>>
\* euros|€
EurosOrSign == <<Alt(<<Lit("euros"), Lit("€")>>)>>

---------------------------------------------------------------------------
(* src/parse_sections.py: parse_requisitos *)

\* \d{1,2}\.\s*º\)
BulletMarker == <<Rep(Digit, 1, 2, FALSE), Chr("."), Star(Ws), Chr("º"), Chr(")")>>

\* (?s)(\d{1,2}\.\s*º\))(.*?)(?=(\d{1,2}\.\s*º\))|$), re.MULTILINE
pattern_bullets ==
    <<Grp(1, BulletMarker), Grp(2, <<Lazy(Dot)>>),
      Look(<<Alt(<<BulletMarker, <<Eol>>>>)>>)>>

\* ^(.*?)\:\s*(.*)$
pattern_colon ==
    <<Bol, Grp(1, <<Lazy(Dot)>>), Chr(":"), Star(Ws), Grp(2, <<Star(Dot)>>), Eol>>

\* the body of the for loop, were every bullet stored under its marker
BulletEntryMarker(m, txt) ==
    LET bullet == Strip(Group(m, 1, txt))
        content == Strip(Group(m, 2, txt))
    IN  <<bullet, Strip(Remove(content, Str("CAPÍTULO III")))>>

\* the body of the for loop: the key and the value one bullet match stores
BulletEntry(m, txt) ==
    LET bullet == Strip(Group(m, 1, txt))
        content == Strip(Group(m, 2, txt))
        lines == SplitLines(content)
    IN  IF Len(lines) = 0 THEN <<bullet, "">>
        ELSE
        LET first_line == Strip(lines[1])
            colonmatch == MatchAtStart(pattern_colon, first_line, Flags(FALSE, FALSE, FALSE))
        IN  IF colonmatch.ok
            THEN LET title == Strip(Group(colonmatch, 1, first_line))
                     rem0 == Strip(Group(colonmatch, 2, first_line))
                     rem1 == IF Len(lines) > 1
                             THEN rem0 \o "\n" \o JoinFrom(lines, 2, "\n") ELSE rem0
                 IN  <<title, Strip(Remove(rem1, Str("CAPÍTULO III")))>>
            ELSE <<bullet, Strip(Remove(content, Str("CAPÍTULO III")))>>

RECURSIVE BulletsFrom(_, _, _, _)
BulletsFrom(ms, k, txt, d) ==
    IF k > Len(ms) THEN d
    ELSE LET e == BulletEntry(ms[k], txt)
         IN  BulletsFrom(ms, k + 1, txt, Put(d, e[1], e[2]))

parse_requisitos(txt) ==
    [matriculacion_minima |->
        BulletsFrom(FindIter(pattern_bullets, txt, Flags(FALSE, TRUE, TRUE)), 1, txt, EmptyDict)]

---------------------------------------------------------------------------
(* src/parse_sections.py: parse_cuantias *)

\* beca de matrícula.*?(cubrirá|cubrir)(.*?)(\d[\d\.,]*\s*(€|euros))?
pattern_matricula ==
    Lit("beca de matrícula") \o
    <<Lazy(Dot), Grp(1, <<Alt(<<Lit("cubrirá"), Lit("cubrir")>>)>>), Grp(2, <<Lazy(Dot)>>),
      Opt(<<Grp(3, <<Digit, Star(NumChar), Star(Ws),
                     Grp(4, <<Alt(<<Lit("€"), Lit("euros")>>)>>)>>)>>)>>

\* cuantía fija ligada a la renta.*?(\d[\d\.,]+)\s*(euros|€)
pattern_renta ==
    Lit("cuantía fija ligada a la renta") \o
    <<Lazy(Dot), Grp(1, Amount), Star(Ws), Grp(2, EurosOrSign)>>

\* cuantía fija ligada a la residencia.*?(\d[\d\.,]+)\s*(euros|€)
pattern_residencia ==
    Lit("cuantía fija ligada a la residencia") \o
    <<Lazy(Dot), Grp(1, Amount), Star(Ws), Grp(2, EurosOrSign)>>

\* Beca básica:\s*(\d[\d\.,]+)\s*(?:euros|€)
pattern_solo_basica ==
    Lit("Beca básica:") \o <<Star(Ws), Grp(1, Amount), Star(Ws)>> \o EurosOrSign

\* Beca básica:\s*(\d[\d\.,]+)\s*(?:euros|€).*?esta\s*cuantía\s*será\s*de\s*(\d[\d\.,]+)\s*(?:euros|€)
pattern_block_basica ==
    pattern_solo_basica \o <<Lazy(Dot)>> \o Lit("esta") \o <<Star(Ws)>> \o
    Lit("cuantía") \o <<Star(Ws)>> \o Lit("será") \o <<Star(Ws)>> \o Lit("de") \o
    <<Star(Ws), Grp(2, Amount), Star(Ws)>> \o EurosOrSign

\* cuantía variable.*?(?:importe mínimo.*?)(\d[\d\.,]+)\s*(euros|€)
pattern_variable ==
    Lit("cuantía variable") \o <<Lazy(Dot)>> \o Lit("importe mínimo") \o
    <<Lazy(Dot), Grp(1, Amount), Star(Ws), Grp(2, EurosOrSign)>>

\* (Artes y Humanidades|Ciencias Sociales y Jurídicas|Ciencias de la Salud
\*  |Ingeniería o Arquitectura[/\w\s]*técnicas|Ciencias).*?(\d{1,3})\%
patron_ramas ==
    <<Grp(1, <<Alt(<<Lit("Artes y Humanidades"),
                     Lit("Ciencias Sociales y Jurídicas"),
                     Lit("Ciencias de la Salud"),
                     Lit("Ingeniería o Arquitectura") \o
                         <<Star(Cls({"/", "\\w", "\\s"}))>> \o Lit("técnicas"),
                     Lit("Ciencias")>>)>>),
      Lazy(Dot), Grp(2, <<Rep(Digit, 1, 3, FALSE)>>), Chr("%")>>

\* mutant of RamaKey: the test for "ciencias" comes first
RamaKeyCienciasFirst(rama_lower) ==
    IF Contains(rama_lower, "ciencias") THEN "ciencias"
    ELSE IF Contains(rama_lower, "artes y humanidades") THEN "artes_humanidades"
    ELSE IF Contains(rama_lower, Str("ingeniería")) \/ Contains(rama_lower, "arquitectura")
         THEN "ingenieria_arquitectura_tecnicas"
    ELSE None

\* the if/elif chain: the key a matched branch name is stored under, None when no
\* test holds
RamaKey(rama_lower) ==
    IF Contains(rama_lower, "artes y humanidades") THEN "artes_humanidades"
    ELSE IF Contains(rama_lower, Str("sociales y jurídicas")) THEN "ciencias_sociales_juridicas"
    ELSE IF Contains(rama_lower, "salud") THEN "ciencias_de_la_salud"
    ELSE IF Contains(rama_lower, Str("ingeniería")) \/ Contains(rama_lower, "arquitectura")
         THEN "ingenieria_arquitectura_tecnicas"
    ELSE IF Contains(rama_lower, "ciencias") THEN "ciencias"
    ELSE None

\* the for loop over patron_ramas.findall(text)
RECURSIVE RamasFrom(_, _, _, _)
RamasFrom(ms, k, txt, d) ==
    IF k > Len(ms) THEN d
    ELSE LET porc_int == ToInt(Group(ms[k], 2, txt))
             key == RamaKey(Lower(Group(ms[k], 1, txt)))
         IN  RamasFrom(ms, k + 1, txt, IF key = None THEN d ELSE Put(d, key, porc_int))

porcentajes(txt) ==
    RamasFrom(FindIter(patron_ramas, txt, Flags(TRUE, FALSE, FALSE)), 1, txt, EmptyDict)

parse_cuantias(txt) ==
    LET match_matricula == Search(pattern_matricula, txt, Flags(TRUE, TRUE, FALSE))
        match_renta == Search(pattern_renta, txt, Flags(TRUE, FALSE, FALSE))
        match_residencia == Search(pattern_residencia, txt, Flags(TRUE, FALSE, FALSE))
        block_basica == Search(pattern_block_basica, txt, Flags(TRUE, TRUE, FALSE))
        solo_basica == Search(pattern_solo_basica, txt, Flags(TRUE, FALSE, FALSE))
        match_variable == Search(pattern_variable, txt, Flags(TRUE, TRUE, FALSE))
    IN  [beca_matricula |->
            IF match_matricula.ok THEN Str("Gratuidad de los créditos de primera matrícula")
            ELSE None,
         fija_renta |->
            IF match_renta.ok THEN Remove(Group(match_renta, 1, txt), ".") ELSE None,
         fija_residencia |->
            IF match_residencia.ok THEN Remove(Group(match_residencia, 1, txt), ".")
            ELSE None,
         beca_basica_normal |->
            IF block_basica.ok THEN Group(block_basica, 1, txt)
            ELSE IF solo_basica.ok THEN Group(solo_basica, 1, txt)
            ELSE None,
         beca_basica_fp_basico |->
            IF block_basica.ok THEN Group(block_basica, 2, txt) ELSE None,
         variable_minima |->
            IF match_variable.ok THEN Group(match_variable, 1, txt) ELSE None,
         porcentajes_por_rama |-> porcentajes(txt)]

---------------------------------------------------------------------------
(* src/parse_sections.py: parse_excelencia, parse_plazo, parse_solicitud *)

\* se\s+requerirá.*?(\d[\d\.,]+)\s*(?:puntos|o superior)
pattern_nota_min ==
    Lit("se") \o <<Plus(Ws)>> \o Lit("requerirá") \o
    <<Lazy(Dot), Grp(1, Amount), Star(Ws), Alt(<<Lit("puntos"), Lit("o superior")>>)>>

\* excelencia\s+académica:\s*entre\s+(\d[\d\.,]+)\s+y\s+(\d[\d\.,]+)\s+euros
pattern_ex ==
    Lit("excelencia") \o <<Plus(Ws)>> \o Lit("académica:") \o <<Star(Ws)>> \o
    Lit("entre") \o <<Plus(Ws), Grp(1, Amount), Plus(Ws), Chr("y"), Plus(Ws),
                      Grp(2, Amount), Plus(Ws)>> \o Lit("euros")

\* mutant of parse_excelencia: only the periods of the amounts are removed
parse_excelenciaPeriods(txt) ==
    LET m_nota_min == Search(pattern_nota_min, txt, Flags(TRUE, FALSE, FALSE))
        m_ex == Search(pattern_ex, txt, Flags(TRUE, FALSE, FALSE))
    IN  [nota_minima_excelencia |->
            IF m_nota_min.ok THEN Group(m_nota_min, 1, txt) ELSE None,
         excelencia_cuantia_min |->
            IF m_ex.ok THEN Remove(Group(m_ex, 1, txt), ".") ELSE None,
         excelencia_cuantia_max |->
            IF m_ex.ok THEN Remove(Group(m_ex, 2, txt), ".") ELSE None]

parse_excelencia(txt) ==
    LET m_nota_min == Search(pattern_nota_min, txt, Flags(TRUE, FALSE, FALSE))
        m_ex == Search(pattern_ex, txt, Flags(TRUE, FALSE, FALSE))
    IN  [nota_minima_excelencia |->
            IF m_nota_min.ok THEN Group(m_nota_min, 1, txt) ELSE None,
         excelencia_cuantia_min |->
            IF m_ex.ok THEN Remove(Remove(Group(m_ex, 1, txt), "."), ",") ELSE None,
         excelencia_cuantia_max |->
            IF m_ex.ok THEN Remove(Remove(Group(m_ex, 2, txt), "."), ",") ELSE None]

\* (?:plazo.*?hasta\s+el\s+(\d{1,2}\s+de\s+\w+\s+de\s+\d{4}))
pattern_plazo ==
    Lit("plazo") \o <<Lazy(Dot)>> \o Lit("hasta") \o <<Plus(Ws)>> \o Lit("el") \o
    <<Plus(Ws),
      Grp(1, <<Rep(Digit, 1, 2, FALSE), Plus(Ws)>> \o Lit("de") \o
             <<Plus(Ws), Plus(Cls({"\\w"})), Plus(Ws)>> \o Lit("de") \o
             <<Plus(Ws), Rep(Digit, 4, 4, FALSE)>>)>>

\* mutant of parse_plazo: the field defaults to the empty string
parse_plazoEmpty(txt) ==
    LET match == Search(pattern_plazo, txt, Flags(TRUE, FALSE, FALSE))
    IN  [plazo_presentacion_fin |-> IF match.ok THEN Group(match, 1, txt) ELSE ""]

parse_plazo(txt) ==
    LET match == Search(pattern_plazo, txt, Flags(TRUE, FALSE, FALSE))
    IN  [plazo_presentacion_fin |-> IF match.ok THEN Group(match, 1, txt) ELSE None]

\* (solicitudes?\sse\spresentarán.*?\.)
pattern_donde ==
    <<Grp(1, Lit("solicitude") \o <<Rep(Chr("s"), 0, 1, FALSE), Ws>> \o Lit("se") \o
             <<Ws>> \o Lit("presentarán") \o <<Lazy(Dot), Chr(".")>>)>>

parse_solicitud(txt) ==
    LET match_donde == Search(pattern_donde, txt, Flags(TRUE, FALSE, FALSE))
    IN  [donde_presentar |->
            IF match_donde.ok THEN Strip(Group(match_donde, 1, txt)) ELSE None]

---------------------------------------------------------------------------
(* src/parse_sections.py: main, for one file of data/sections *)

\* mutant of SectionContent: data[key] without the default
SectionContentNoDefault(d, key) ==
    IF key \notin DOMAIN d THEN [raised |-> "KeyError", value |-> ""]
    ELSE IF Len(d[key]) = 0 THEN [raised |-> "IndexError", value |-> ""]
    ELSE IF "content" \notin DOMAIN d[key][1] THEN [raised |-> "KeyError", value |-> ""]
    ELSE [raised |-> "none", value |-> d[key][1].content]

\* data.get(key, [{"content": ""}])[0]["content"]: the exception it raises, or the string
SectionContent(d, key) ==
    LET entry == IF key \in DOMAIN d THEN d[key] ELSE <<[content |-> ""]>>
    IN  IF Len(entry) = 0 THEN [raised |-> "IndexError", value |-> ""]
        ELSE IF "content" \notin DOMAIN entry[1] THEN [raised |-> "KeyError", value |-> ""]
        ELSE [raised |-> "none", value |-> entry[1].content]

\* the first exception among the five look-ups, "none" when all succeed
RECURSIVE FirstRaised(_, _)
FirstRaised(d, keys) ==
    IF Len(keys) = 0 THEN "none"
    ELSE IF SectionContent(d, Head(keys)).raised # "none"
         THEN SectionContent(d, Head(keys)).raised
    ELSE FirstRaised(d, Tail(keys))

\* the order in which main reads the sections
ReadOrder == <<"requisitos", "cuantias", "plazo", "solicitud", "excelencia">>

\* final_info as first built from the five parsers
Parsed(d) ==
    [requisitos |-> parse_requisitos(SectionContent(d, "requisitos").value),
     cuantias   |-> parse_cuantias(SectionContent(d, "cuantias").value),
     excelencia |-> parse_excelencia(SectionContent(d, "excelencia").value),
     plazo      |-> parse_plazo(SectionContent(d, "plazo").value),
     solicitud  |-> parse_solicitud(SectionContent(d, "solicitud").value)]

\* mutant of MoveRamas: the mapping is copied (get) and not moved (pop)
MoveRamasCopy(fi) ==
    IF DOMAIN fi.cuantias.porcentajes_por_rama # {}
    THEN [fi EXCEPT !.requisitos =
             Put(@, "porcentajes_por_rama", fi.cuantias.porcentajes_por_rama)]
    ELSE fi

\* por_rama = final_info["cuantias"].pop("porcentajes_por_rama", None)
\* if por_rama: final_info["requisitos"]["porcentajes_por_rama"] = por_rama
MoveRamas(fi) ==
    LET has == "porcentajes_por_rama" \in DOMAIN fi.cuantias
        popped == [fi EXCEPT !.cuantias = Without(@, "porcentajes_por_rama")]
    IN  IF has /\ DOMAIN fi.cuantias.porcentajes_por_rama # {}
        THEN [popped EXCEPT !.requisitos =
                 Put(@, "porcentajes_por_rama", fi.cuantias.porcentajes_por_rama)]
        ELSE popped

\* the record main writes for the section mapping d
Assemble(d) == MoveRamas(Parsed(d))

---------------------------------------------------------------------------
(* The pipeline for one document: locate_sections step by step, the JSON file of
   data/sections, parse_sections.main *)

\* the documents: up to MaxFrags pieces, each one of Frags
MaxFrags == 3

Frags == <<"REQUISITOS", "Cuantía", "plazo ", "SOLICITUD", "x\n", " 50 EUROS", "€",
           " Ciencias 9%">>

RECURSIVE Concat(_, _)
Concat(f, k) == IF k > Len(f) THEN "" ELSE Str(Frags[f[k]]) \o Concat(f, k + 1)

Texts ==
    {Concat(f, 1) : f \in UNION {[1..n -> 1..Len(Frags)] : n \in 0..MaxFrags}}

Init ==
    /\ text \in Texts
    /\ pc = "start"
    /\ matches = <<>>
    /\ i = 0
    /\ found_sections = EmptyDict
    /\ blocks = <<>>
    /\ data = EmptyDict
    /\ final_info = EmptyDict
    /\ result = EmptyDict
    /\ error = "none"
    /\ NoBatch

\* locate_sections, lines 29-46: the empty result and the heading matches
LocateInit ==
    /\ pc = "start"
    /\ found_sections' = EmptySections
    /\ matches' = HeadingMatches(text)
    /\ i' = 0
    /\ pc' = "loop"
    /\ UNCHANGED <<text, blocks, data, final_info, result, error>>
    /\ UNCHANGED <<batch, calls>>

\* locate_sections, lines 48-70: one turn of the loop over matches
LocateStep ==
    /\ pc = "loop"
    /\ i < Len(matches)
    /\ found_sections' = StepSections(found_sections, matches, i, text)
    /\ blocks' = Append(blocks,
          [start |-> matches[i + 1].start,
           end   |-> BlockEnd(matches, i, text),
           keys  |-> {key \in DOMAIN found_sections :
                         found_sections'[key] # found_sections[key]}])
    /\ i' = i + 1
    /\ UNCHANGED <<text, pc, matches, data, final_info, result, error>>
    /\ UNCHANGED <<batch, calls>>

\* locate_sections, lines 72-78: the post-filter of cuantias, and the return
LocateFilter ==
    /\ pc = "loop"
    /\ i = Len(matches)
    /\ found_sections' = FilterCuantias(found_sections)
    /\ pc' = "located"
    /\ UNCHANGED <<text, matches, i, blocks, data, final_info, result, error>>
    /\ UNCHANGED <<batch, calls>>

\* process_all_txts, lines 90-93: the mapping is dumped to data/sections
WriteSections ==
    /\ pc = "located"
    /\ data' = found_sections
    /\ pc' = "written"
    /\ UNCHANGED <<text, matches, i, found_sections, blocks, final_info, result, error>>
    /\ UNCHANGED <<batch, calls>>

\* a file of data/sections that lacks one of the keys (main reads every .json file
\* of the folder and gives a missing key a default)
ForeignSections ==
    /\ pc = "located"
    /\ \E key \in DOMAIN found_sections : data' = Without(found_sections, key)
    /\ pc' = "written"
    /\ UNCHANGED <<text, matches, i, found_sections, blocks, final_info, result, error>>
    /\ UNCHANGED <<batch, calls>>

\* main, lines 206-240: load, parse, assemble
ParseMain ==
    /\ pc = "written"
    /\ LET raised == FirstRaised(data, ReadOrder)
       IN  IF raised # "none"
           THEN /\ error' = raised
                /\ pc' = "raised"
                /\ UNCHANGED final_info
           ELSE /\ final_info' = Assemble(data)
                /\ pc' = "parsed"
                /\ UNCHANGED error
    /\ UNCHANGED <<text, matches, i, found_sections, blocks, data, result>>
    /\ UNCHANGED <<batch, calls>>

Next ==
    \/ LocateInit
    \/ LocateStep
    \/ LocateFilter
    \/ WriteSections
    \/ ForeignSections
    \/ ParseMain

Spec == Init /\ [][Next]_vars

---------------------------------------------------------------------------
(* The field parsers run alone on a section text *)

\* the section texts: up to MaxParts pieces, each one of ParserFrags
MaxParts == 2

ParserFrags ==
    <<"1.º) Título: contenido", "\n", "2.º) Otro",
      "cuantía fija ligada a la renta de 1.600 euros", " Ciencias de la Salud 80%",
      "plazo hasta el 15 de octubre de 2024", "Las solicitudes se presentarán en la sede.",
      "excelencia académica: entre 50 y 125 euros", "se requerirá 8,00 puntos">>

RECURSIVE ConcatParts(_, _)
ConcatParts(f, k) ==
    IF k > Len(f) THEN "" ELSE Str(ParserFrags[f[k]]) \o ConcatParts(f, k + 1)

ParserTexts ==
    {ConcatParts(f, 1) : f \in UNION {[1..n -> 1..Len(ParserFrags)] : n \in 0..MaxParts}}

InitParsers ==
    /\ text \in ParserTexts
    /\ pc = "input"
    /\ matches = <<>>
    /\ i = 0
    /\ found_sections = EmptyDict
    /\ blocks = <<>>
    /\ data = EmptyDict
    /\ final_info = EmptyDict
    /\ result = EmptyDict
    /\ error = "none"
    /\ NoBatch

\* parse_requisitos(text) is called and returns; pc names the parser that returned
ParseRequisitos ==
    /\ pc = "input"
    /\ result' = parse_requisitos(text)
    /\ pc' = "parse_requisitos"
    /\ UNCHANGED <<text, matches, i, found_sections, blocks, data, final_info, error>>
    /\ UNCHANGED <<batch, calls>>

\* parse_cuantias(text) is called and returns; pc names the parser that returned
ParseCuantias ==
    /\ pc = "input"
    /\ result' = parse_cuantias(text)
    /\ pc' = "parse_cuantias"
    /\ UNCHANGED <<text, matches, i, found_sections, blocks, data, final_info, error>>
    /\ UNCHANGED <<batch, calls>>

\* parse_excelencia(text) is called and returns; pc names the parser that returned
ParseExcelencia ==
    /\ pc = "input"
    /\ result' = parse_excelencia(text)
    /\ pc' = "parse_excelencia"
    /\ UNCHANGED <<text, matches, i, found_sections, blocks, data, final_info, error>>
    /\ UNCHANGED <<batch, calls>>

\* parse_plazo(text) is called and returns; pc names the parser that returned
ParsePlazo ==
    /\ pc = "input"
    /\ result' = parse_plazo(text)
    /\ pc' = "parse_plazo"
    /\ UNCHANGED <<text, matches, i, found_sections, blocks, data, final_info, error>>
    /\ UNCHANGED <<batch, calls>>

\* parse_solicitud(text) is called and returns; pc names the parser that returned
ParseSolicitud ==
    /\ pc = "input"
    /\ result' = parse_solicitud(text)
    /\ pc' = "parse_solicitud"
    /\ UNCHANGED <<text, matches, i, found_sections, blocks, data, final_info, error>>
    /\ UNCHANGED <<batch, calls>>

NextParsers ==
    \/ ParseRequisitos
    \/ ParseCuantias
    \/ ParseExcelencia
    \/ ParsePlazo
    \/ ParseSolicitud

SpecParsers == InitParsers /\ [][NextParsers]_vars

---------------------------------------------------------------------------
(* parse_requisitos on lists of bullets "<n>.º) <title>: <content>", one per line *)

MaxBullets == 2

BulletTitles == <<"Título", "Otro", "A b">>
BulletContents == <<"contenido", "cosa", "4 asignaturas CAPÍTULO III", "30 de 60">>

\* the lists of at most MaxBullets bullets, a bullet being a title and a content
BulletLists ==
    UNION {[1..n -> [title : 1..Len(BulletTitles), content : 1..Len(BulletContents)]] :
             n \in 0..MaxBullets}

TitleOf(b) == Str(BulletTitles[b.title])
ContentOfBullet(b) == Str(BulletContents[b.content])

\* the line of bullet b, written as bullet number k
BulletLine(b, k) ==
    SubSeq("123456789", k, k) \o Str(".º) ") \o TitleOf(b) \o ": " \o ContentOfBullet(b)

\* the text of the bullets from number k on, one per line
RECURSIVE BulletLines(_, _)
BulletLines(bl, k) ==
    IF k > Len(bl) THEN ""
    ELSE BulletLine(bl[k], k) \o (IF k < Len(bl) THEN "\n" ELSE "")
         \o BulletLines(bl, k + 1)

BulletTexts == {BulletLines(bl, 1) : bl \in BulletLists}

InitBullets ==
    /\ text \in BulletTexts
    /\ pc = "input"
    /\ matches = <<>>
    /\ i = 0
    /\ found_sections = EmptyDict
    /\ blocks = <<>>
    /\ data = EmptyDict
    /\ final_info = EmptyDict
    /\ result = EmptyDict
    /\ error = "none"
    /\ NoBatch

NextBullets == ParseRequisitos

SpecBullets == InitBullets /\ [][NextBullets]_vars

---------------------------------------------------------------------------
(* parse_cuantias on sentences "<lead> <amount><unit>." *)

RentaLeads ==
    <<"cuantía fija ligada a la renta de ", "Cuantía fija ligada a la renta: hasta ",
      "cuantía fija ligada a la residencia de ", "la renta de ">>
RentaAmounts == <<"1.600", "1700", "1.600,50", "2,500", "60", "5">>
RentaUnits == <<" euros", "€", " EUROS", " puntos">>

\* the sentences, each a lead, an amount and a unit
RentaSentences ==
    [lead : 1..Len(RentaLeads), amount : 1..Len(RentaAmounts), unit : 1..Len(RentaUnits)]

RentaText(s) ==
    Str(RentaLeads[s.lead]) \o RentaAmounts[s.amount] \o Str(RentaUnits[s.unit]) \o "."

InitAmounts ==
    /\ text \in {RentaText(s) : s \in RentaSentences}
    /\ pc = "input"
    /\ matches = <<>>
    /\ i = 0
    /\ found_sections = EmptyDict
    /\ blocks = <<>>
    /\ data = EmptyDict
    /\ final_info = EmptyDict
    /\ result = EmptyDict
    /\ error = "none"
    /\ NoBatch

NextAmounts == ParseCuantias

SpecAmounts == InitAmounts /\ [][NextAmounts]_vars

---------------------------------------------------------------------------
(* The end-to-end scenario: three sections, each a heading line and a body *)

ScenarioSections ==
    <<"REQUISITOS\n1.º) Bachillerato: 4 asignaturas.",
      "CUANTÍAS\ncuantía fija ligada a la renta de 1.700 euros.",
      "PLAZO\nplazo ... hasta el 15 de octubre de 2024.">>

\* what may stand before the first heading line
ScenarioLeads == <<"", "Convocatoria de becas\n", "Resuelvo:\n\n">>

\* the orders in which the three sections may come
ScenarioOrders == {o \in [1..3 -> 1..3] : \A a, b \in 1..3 : o[a] = o[b] => a = b}

ScenarioText(lead, o) ==
    Str(ScenarioLeads[lead]) \o Str(ScenarioSections[o[1]]) \o "\n"
    \o Str(ScenarioSections[o[2]]) \o "\n" \o Str(ScenarioSections[o[3]])

InitScenario ==
    /\ text \in {ScenarioText(lead, o) : lead \in DOMAIN ScenarioLeads, o \in ScenarioOrders}
    /\ pc = "start"
    /\ matches = <<>>
    /\ i = 0
    /\ found_sections = EmptyDict
    /\ blocks = <<>>
    /\ data = EmptyDict
    /\ final_info = EmptyDict
    /\ result = EmptyDict
    /\ error = "none"
    /\ NoBatch

SpecScenario == InitScenario /\ [][Next]_vars

---------------------------------------------------------------------------
(* The batch loops: extract_text.process_all_pdfs, locate_sections.process_all_txts,
   parse_sections.main and generate_summary_exp1..exp4.process_all.  A file of the
   input folder is "ok", "unreadable" (open raises) or "invalid" (its content is not
   what the script reads: not UTF-8 text, not JSON).  The output folder is writable. *)

\* str.endswith
EndsWith(s, suffix) ==
    Len(s) >= Len(suffix) /\ Slice(s, Len(s) - Len(suffix), Len(s)) = suffix

\* str.replace(old, new) for a non-empty old
RECURSIVE Replace(_, _, _)
Replace(s, old, new) ==
    IF Find(s, old) = -1 THEN s
    ELSE LET a == Find(s, old)
         IN  Slice(s, 0, a) \o new \o Replace(Slice(s, a + Len(old), Len(s)), old, new)

Stages ==
    {"extract_text", "locate_sections", "parse_sections",
     "generate_summary_exp1", "generate_summary_exp2", "generate_summary_exp3",
     "generate_summary_exp4"}

\* the extension of the files a script reads
InputExtension(s) ==
    CASE s = "extract_text" -> ".pdf"
      [] s = "locate_sections" -> ".txt"
      [] OTHER -> ".json"

\* whether the loop of the script takes the file name
Selected(s, filename) ==
    IF s \in {"extract_text", "locate_sections", "parse_sections"}
    THEN EndsWith(Lower(filename), InputExtension(s))
    ELSE EndsWith(filename, ".json")

\* the name of the output file, inside the script's output folder
OutputName(s, filename) ==
    CASE s = "extract_text" -> Replace(filename, ".pdf", ".txt")
      [] s = "locate_sections" -> Replace(filename, ".txt", ".json")
      [] s = "parse_sections" -> filename
      [] OTHER -> Replace(filename, ".json", "_resumen.txt")

\* the exception that reading the file raises, "none" for a file that is read
ReadError(s, kind) ==
    CASE kind = "ok" -> "none"
      [] kind = "unreadable" -> "OSError"
      [] s = "extract_text" -> "FileDataError"
      [] s = "locate_sections" -> "UnicodeDecodeError"
      [] OTHER -> "JSONDecodeError"

\* the value a function of the repository or an external model computes from x
Computed(by, x) == by \o "(" \o x \o ")"

\* extract_text_from_pdf: the text of the PDF, the empty string when fitz.open raises
ExtractedText(f) ==
    IF ReadError("extract_text", f.kind) # "none" THEN ""
    ELSE Computed("extract_text_from_pdf", f.name)

\* generate_narrative_summary(parsed)
NarrativeSummary(f) == Computed("generate_narrative_summary", f.name)

\* mutant of Exp1Summary: no placeholder, the text is empty
Exp1SummaryEmpty(f, raised) ==
    IF raised THEN "" ELSE Computed("summarizer", f.name)

\* generate_summary_exp1, lines 42-49: ai_summary, when the summarizer raises or not
Exp1Summary(f, raised) ==
    IF raised THEN "Error generando el resumen." ELSE Computed("summarizer", f.name)

\* generate_summary_exp2, lines 93-104
Exp2Summary(f, raised) ==
    LET narrative_summary == NarrativeSummary(f)
    IN  IF raised THEN narrative_summary ELSE Computed("ai_summarizer", narrative_summary)

\* generate_summary_exp3, lines 125-140
Exp3Summary(f, raised) ==
    LET narrative_summary == NarrativeSummary(f)
        ai_summary == IF raised THEN narrative_summary
                      ELSE Computed("ai_summarizer", narrative_summary)
    IN  Computed("refine_text", ai_summary)

\* generate_summary_exp4, lines 100-125: raised[k] tells whether the k-th model raises
Exp4Summary(f, raised) ==
    LET narrative_summary == NarrativeSummary(f)
        english_translation == IF raised[1] THEN narrative_summary
                               ELSE Computed("translator_es_en", narrative_summary)
        summarized_english == IF raised[2] THEN english_translation
                              ELSE Computed("english_summarizer", english_translation)
    IN  IF raised[3] THEN summarized_english
        ELSE Computed("translator_en_es", summarized_english)

\* the messages printed for the models of raised that raise
RECURSIVE ModelErrors(_, _, _)
ModelErrors(f, models, raised) ==
    IF Len(models) = 0 THEN <<>>
    ELSE (IF Head(raised) THEN <<[file |-> f.name, error |-> Head(models)]>> ELSE <<>>)
         \o ModelErrors(f, Tail(models), Tail(raised))

MaxFiles == 2

\* the names of the files of an input folder and the states of a file
FileStems == <<"a", "b">>
FileKinds == {"ok", "unreadable", "invalid"}

\* the extension in capitals, as a folder may hold it
CapitalExtension(s) ==
    CASE s = "extract_text" -> ".PDF"
      [] s = "locate_sections" -> ".TXT"
      [] OTHER -> ".JSON"

FileNames(s) ==
    {FileStems[1] \o InputExtension(s), FileStems[2] \o InputExtension(s), "notas.md",
     FileStems[1] \o CapitalExtension(s),
     FileStems[2] \o InputExtension(s) \o InputExtension(s)}

\* the listings of a folder: at most MaxFiles files, no name twice
Listings(s) ==
    {l \in UNION {[1..n -> [name : FileNames(s), kind : FileKinds]] : n \in 0..MaxFiles} :
        \A a, b \in DOMAIN l : l[a].name = l[b].name => a = b}

InitBatch ==
    /\ stage \in Stages
    /\ listing \in Listings(stage)
    /\ position = 0
    /\ outputs = EmptyDict
    /\ log = <<>>
    /\ pc = "batch"
    /\ error = "none"
    /\ calls = <<>>
    /\ text = ""
    /\ matches = <<>>
    /\ i = 0
    /\ found_sections = EmptyDict
    /\ blocks = <<>>
    /\ data = EmptyDict
    /\ final_info = EmptyDict
    /\ result = EmptyDict

\* the file of the listing the loop is at
Current == listing[position + 1]

\* the loop has a file name left, which the script does not take
SkipFile ==
    /\ pc = "batch"
    /\ position < Len(listing)
    /\ ~Selected(stage, Current.name)
    /\ position' = position + 1
    /\ UNCHANGED <<stage, listing, outputs, log, pc, error, calls, document>>

\* process_all_pdfs, lines 97-105: one PDF; extract_text_from_pdf catches what
\* fitz.open raises, prints it and returns "", and the text is written
ExtractPdf ==
    /\ pc = "batch"
    /\ stage = "extract_text"
    /\ position < Len(listing)
    /\ Selected(stage, Current.name)
    /\ log' = IF ReadError(stage, Current.kind) # "none"
              THEN Append(log, [file |-> Current.name, error |-> "fitz.open"])
              ELSE log
    /\ outputs' = Put(outputs, OutputName(stage, Current.name), ExtractedText(Current))
    /\ position' = position + 1
    /\ UNCHANGED <<stage, listing, pc, error, calls, document>>

\* process_all_txts, lines 82-93, and parse_sections.main, lines 199-240: one file;
\* nothing catches what open, f.read or json.load raises
LocateOrParseFile ==
    /\ pc = "batch"
    /\ stage \in {"locate_sections", "parse_sections"}
    /\ position < Len(listing)
    /\ Selected(stage, Current.name)
    /\ IF ReadError(stage, Current.kind) # "none"
       THEN /\ pc' = "aborted"
            /\ error' = ReadError(stage, Current.kind)
            /\ UNCHANGED <<outputs, position>>
       ELSE /\ outputs' = Put(outputs, OutputName(stage, Current.name),
                              Computed(stage, Current.name))
            /\ position' = position + 1
            /\ UNCHANGED <<pc, error>>
    /\ UNCHANGED <<stage, listing, log, calls, document>>

\* generate_summary_exp1.process_all, lines 22-57: one file; json.load is outside
\* every try, the summarizer inside one
SummaryExp1 ==
    /\ pc = "batch"
    /\ stage = "generate_summary_exp1"
    /\ position < Len(listing)
    /\ Selected(stage, Current.name)
    /\ IF ReadError(stage, Current.kind) # "none"
       THEN /\ pc' = "aborted"
            /\ error' = ReadError(stage, Current.kind)
            /\ UNCHANGED <<outputs, position, log>>
       ELSE \E raised \in BOOLEAN :
            /\ log' = log \o ModelErrors(Current, <<"summarizer">>, <<raised>>)
            /\ outputs' = Put(outputs, OutputName(stage, Current.name),
                              Exp1Summary(Current, raised))
            /\ position' = position + 1
            /\ UNCHANGED <<pc, error>>
    /\ UNCHANGED <<stage, listing, calls, document>>

\* generate_summary_exp2..exp4.process_all: one file; a failing json.load is printed
\* and the file passed over, each model call is inside a try of its own
SummaryExp234 ==
    /\ pc = "batch"
    /\ stage \in {"generate_summary_exp2", "generate_summary_exp3", "generate_summary_exp4"}
    /\ position < Len(listing)
    /\ Selected(stage, Current.name)
    /\ IF ReadError(stage, Current.kind) # "none"
       THEN /\ log' = Append(log, [file |-> Current.name, error |-> "json.load"])
            /\ UNCHANGED outputs
       ELSE IF stage = "generate_summary_exp2"
       THEN \E raised \in BOOLEAN :
            /\ log' = log \o ModelErrors(Current, <<"ai_summarizer">>, <<raised>>)
            /\ outputs' = Put(outputs, OutputName(stage, Current.name),
                              Exp2Summary(Current, raised))
       ELSE IF stage = "generate_summary_exp3"
       THEN \E raised \in BOOLEAN :
            /\ log' = log \o ModelErrors(Current, <<"ai_summarizer">>, <<raised>>)
            /\ outputs' = Put(outputs, OutputName(stage, Current.name),
                              Exp3Summary(Current, raised))
       ELSE \E raised \in [1..3 -> BOOLEAN] :
            /\ log' = log \o ModelErrors(Current,
                          <<"translator_es_en", "english_summarizer", "translator_en_es">>,
                          raised)
            /\ outputs' = Put(outputs, OutputName(stage, Current.name),
                              Exp4Summary(Current, raised))
    /\ position' = position + 1
    /\ UNCHANGED <<stage, listing, pc, error, calls, document>>

\* the for loop has gone through the listing
EndOfListing ==
    /\ pc = "batch"
    /\ position = Len(listing)
    /\ pc' = "finished"
    /\ UNCHANGED <<stage, listing, position, outputs, log, error, calls, document>>

NextBatch ==
    \/ SkipFile
    \/ ExtractPdf
    \/ LocateOrParseFile
    \/ SummaryExp1
    \/ SummaryExp234
    \/ EndOfListing

SpecBatch == InitBatch /\ [][NextBatch]_vars

---------------------------------------------------------------------------
(* src/extract_text.py: clean_paragraph, remove_signature_lines and the text of
   extract_text_from_pdf *)

\* str.split(sep) for a non-empty sep
RECURSIVE Split(_, _)
Split(s, sep) ==
    IF Find(s, sep) = -1 THEN <<s>>
    ELSE LET a == Find(s, sep)
         IN  <<Slice(s, 0, a)>> \o Split(Slice(s, a + Len(sep), Len(s)), sep)

\* sep.join(parts)
Join(parts, sep) == IF Len(parts) = 0 THEN "" ELSE JoinFrom(parts, 1, sep)

\* the body of the for loop of clean_paragraph, lines 17-31: result after the line
CleanLine(result_, line_) ==
    LET stripped == Strip(line_)
        line == IF EndsWith(stripped, "-") THEN Slice(stripped, 0, Len(stripped) - 1)
                ELSE stripped
    IN  IF stripped = "" THEN result_
        ELSE IF result_ # "" THEN result_ \o " " \o line
        ELSE line

RECURSIVE CleanLines(_, _, _)
CleanLines(lines, k, result_) ==
    IF k > Len(lines) THEN result_
    ELSE CleanLines(lines, k + 1, CleanLine(result_, lines[k]))

clean_paragraph(paragraph) == CleanLines(Split(paragraph, "\n"), 1, "")

\* the marker substrings of lines 48-52
SignatureMarkers ==
    <<"CSV : GEN-", Str("DIRECCIÓN DE VALIDACIÓN"), "FIRMANTE(", "FECHA :", "NOTAS :">>

\* mutant of IsSignatureLine: the markers are looked for whatever the case
IsSignatureLineAnyCase(line) ==
    \E k \in DOMAIN SignatureMarkers : Contains(Lower(line), Lower(SignatureMarkers[k]))

\* the condition of lines 47-53
IsSignatureLine(line) ==
    \E k \in DOMAIN SignatureMarkers : Contains(line, SignatureMarkers[k])

RECURSIVE FilteredLines(_, _)
FilteredLines(lines, k) ==
    IF k > Len(lines) THEN <<>>
    ELSE (IF IsSignatureLine(lines[k]) THEN <<>> ELSE <<lines[k]>>)
         \o FilteredLines(lines, k + 1)

remove_signature_lines(txt) == Join(FilteredLines(Split(txt, "\n"), 1), "\n")

\* lines 79-85 for one page: its clean paragraphs
RECURSIVE CleanParagraphs(_, _)
CleanParagraphs(paragraphs, k) ==
    IF k > Len(paragraphs) THEN <<>>
    ELSE (IF Strip(paragraphs[k]) # "" THEN <<clean_paragraph(paragraphs[k])>> ELSE <<>>)
         \o CleanParagraphs(paragraphs, k + 1)

PageParagraphs(page_text) ==
    CleanParagraphs(Split(remove_signature_lines(page_text), "\n\n"), 1)

RECURSIVE FullText(_, _)
FullText(pages, k) ==
    IF k > Len(pages) THEN <<>> ELSE PageParagraphs(pages[k]) \o FullText(pages, k + 1)

\* extract_text_from_pdf, lines 72-88, for a document opened with these page texts
extract_text_from_pdf(pages) == Strip(Join(FullText(pages, 1), "\n\n"))

\* the page texts: up to MaxPieces pieces, each one of PagePieces
MaxPieces == 3

PagePieces ==
    <<"a", "b-", "\n", "\n\n", " ", "FECHA : 1", "fecha : 2", "CSV :", " GEN-7", "-">>

RECURSIVE ConcatPieces(_, _)
ConcatPieces(f, k) ==
    IF k > Len(f) THEN "" ELSE PagePieces[f[k]] \o ConcatPieces(f, k + 1)

PageTexts ==
    {ConcatPieces(f, 1) : f \in UNION {[1..n -> 1..Len(PagePieces)] : n \in 0..MaxPieces}}

InitNormalizer ==
    /\ text \in PageTexts
    /\ pc = "input"
    /\ matches = <<>>
    /\ i = 0
    /\ found_sections = EmptyDict
    /\ blocks = <<>>
    /\ data = EmptyDict
    /\ final_info = EmptyDict
    /\ result = ""
    /\ error = "none"
    /\ NoBatch

\* clean_paragraph(text) is called and returns
CleanParagraph ==
    /\ pc = "input"
    /\ result' = clean_paragraph(text)
    /\ pc' = "clean_paragraph"
    /\ UNCHANGED <<text, matches, i, found_sections, blocks, data, final_info, error>>
    /\ UNCHANGED <<batch, calls>>

\* remove_signature_lines(text) is called and returns
RemoveSignatureLines ==
    /\ pc = "input"
    /\ result' = remove_signature_lines(text)
    /\ pc' = "remove_signature_lines"
    /\ UNCHANGED <<text, matches, i, found_sections, blocks, data, final_info, error>>
    /\ UNCHANGED <<batch, calls>>

\* extract_text_from_pdf returns for a document of one page, whose text is text
ExtractText ==
    /\ pc = "input"
    /\ result' = extract_text_from_pdf(<<text>>)
    /\ pc' = "extract_text_from_pdf"
    /\ UNCHANGED <<text, matches, i, found_sections, blocks, data, final_info, error>>
    /\ UNCHANGED <<batch, calls>>

\* the text that was extracted is the page text of a document extracted in its turn
ExtractAgain ==
    /\ pc = "extract_text_from_pdf"
    /\ text' = result
    /\ result' = extract_text_from_pdf(<<result>>)
    /\ pc' = "extracted_again"
    /\ UNCHANGED <<matches, i, found_sections, blocks, data, final_info, error>>
    /\ UNCHANGED <<batch, calls>>

NextNormalizer ==
    \/ CleanParagraph
    \/ RemoveSignatureLines
    \/ ExtractText
    \/ ExtractAgain

SpecNormalizer == InitNormalizer /\ [][NextNormalizer]_vars

---------------------------------------------------------------------------
(* Several documents in progress at once: a call of locate_sections per document,
   its loop turns interleaved with those of the other calls, then the parsers of
   parse_sections.main on what it returned. SECTIONS is only read (lines 30, 40
   and 60 of locate_sections.py), so it stays the definition above. *)

\* the documents in progress
Documents == {1, 2}

\* the document texts: up to MaxCallFrags pieces, each one of CallFrags
MaxCallFrags == 2

CallFrags == <<"REQUISITOS", "Cuantía 5€ Ciencias 9%">>

RECURSIVE ConcatCallFrags(_, _)
ConcatCallFrags(f, k) ==
    IF k > Len(f) THEN "" ELSE Str(CallFrags[f[k]]) \o ConcatCallFrags(f, k + 1)

CallTexts ==
    {ConcatCallFrags(f, 1) :
        f \in UNION {[1..n -> 1..Len(CallFrags)] : n \in 0..MaxCallFrags}}

\* mutant of Frame: found_sections is one dictionary of the module
FrameOfModule(d) == 1

\* the frame that holds the local found_sections of the call for document d: the
\* dictionary is created by the call (line 29), one per call
Frame(d) == d

InitCalls ==
    /\ text = ""
    /\ pc = "calls"
    /\ matches = <<>>
    /\ i = 0
    /\ found_sections = EmptyDict
    /\ blocks = <<>>
    /\ data = EmptyDict
    /\ final_info = EmptyDict
    /\ result = EmptyDict
    /\ error = "none"
    /\ stage = "none"
    /\ listing = <<>>
    /\ position = 0
    /\ outputs = <<>>
    /\ log = <<>>
    /\ \E texts \in [Documents -> CallTexts] :
          calls = [local |-> [d \in Documents |->
                                 [text |-> texts[d], pc |-> "start", matches |-> <<>>,
                                  i |-> 0, final_info |-> EmptyDict, error |-> "none"]],
                   found |-> [f \in Documents |-> EmptyDict]]

\* locate_sections, lines 29-46, in the call for document d
CallLocateInit(d) ==
    /\ calls.local[d].pc = "start"
    /\ calls' = [calls EXCEPT
          !.found[Frame(d)] = EmptySections,
          !.local[d].matches = HeadingMatches(calls.local[d].text),
          !.local[d].i = 0,
          !.local[d].pc = "loop"]
    /\ UNCHANGED <<document, pc, error, batch>>

\* locate_sections, lines 48-70: one turn of the loop in the call for document d
CallLocateStep(d) ==
    LET c == calls.local[d]
    IN  /\ c.pc = "loop"
        /\ c.i < Len(c.matches)
        /\ calls' = [calls EXCEPT
              !.found[Frame(d)] = StepSections(@, c.matches, c.i, c.text),
              !.local[d].i = c.i + 1]
        /\ UNCHANGED <<document, pc, error, batch>>

\* locate_sections, lines 72-78: the post-filter and the return
CallLocateFilter(d) ==
    LET c == calls.local[d]
    IN  /\ c.pc = "loop"
        /\ c.i = Len(c.matches)
        /\ calls' = [calls EXCEPT
              !.found[Frame(d)] = FilterCuantias(@),
              !.local[d].pc = "located"]
        /\ UNCHANGED <<document, pc, error, batch>>

\* main, lines 206-236, on the mapping located for document d
CallParseMain(d) ==
    LET c == calls.local[d]
        raised == FirstRaised(calls.found[Frame(d)], ReadOrder)
    IN  /\ c.pc = "located"
        /\ calls' = IF raised # "none"
                    THEN [calls EXCEPT !.local[d].error = raised,
                                       !.local[d].pc = "raised"]
                    ELSE [calls EXCEPT
                             !.local[d].final_info = Assemble(calls.found[Frame(d)]),
                             !.local[d].pc = "parsed"]
        /\ UNCHANGED <<document, pc, error, batch>>

NextCalls ==
    \E d \in Documents :
        \/ CallLocateInit(d)
        \/ CallLocateStep(d)
        \/ CallLocateFilter(d)
        \/ CallParseMain(d)

SpecCalls == InitCalls /\ [][NextCalls]_vars


---------------------------------------------------------------------------
(* parse_requisitos on bullets of any shape: with and without colon, empty, on
   several lines, with a title or a marker that comes twice *)

MaxItems == 3

BulletItems == <<"1.º)", "2.º)", " Título: uno", " sin", "\n", " CAPÍTULO III">>

RECURSIVE ConcatItems(_, _)
ConcatItems(f, k) ==
    IF k > Len(f) THEN "" ELSE Str(BulletItems[f[k]]) \o ConcatItems(f, k + 1)

ItemTexts ==
    {ConcatItems(f, 1) : f \in UNION {[1..n -> 1..Len(BulletItems)] : n \in 0..MaxItems}}

InitRequisitos ==
    /\ text \in ItemTexts
    /\ pc = "input"
    /\ matches = <<>>
    /\ i = 0
    /\ found_sections = EmptyDict
    /\ blocks = <<>>
    /\ data = EmptyDict
    /\ final_info = EmptyDict
    /\ result = EmptyDict
    /\ error = "none"
    /\ NoBatch

NextRequisitos == ParseRequisitos

SpecRequisitos == InitRequisitos /\ [][NextRequisitos]_vars


---------------------------------------------------------------------------
(* parse_excelencia on sentences that state a minimum grade and a range of amounts *)

GradeNumbers == <<"8,00", "9.5", "10", "7">>
GradeUnits == <<" puntos", " o superior">>
RangeAmounts == <<"50", "1.500", "2,5", "1.250,75">>

\* the sentence of the grade, none for number 0
GradeSentence(n, u) ==
    IF n = 0 THEN "" ELSE Str("Se requerirá una nota de ") \o GradeNumbers[n] \o GradeUnits[u] \o ". "

\* the sentence of the range, none for lowest 0
RangeSentence(lo, hi) ==
    IF lo = 0 THEN ""
    ELSE Str("Excelencia académica: entre ") \o RangeAmounts[lo] \o " y "
         \o RangeAmounts[hi] \o " euros."

ExcelenciaTexts ==
    {GradeSentence(n, u) \o RangeSentence(lo, hi) :
        n \in 0..Len(GradeNumbers), u \in 1..Len(GradeUnits),
        lo \in 0..Len(RangeAmounts), hi \in 1..Len(RangeAmounts)}

InitExcelencia ==
    /\ text \in ExcelenciaTexts
    /\ pc = "input"
    /\ matches = <<>>
    /\ i = 0
    /\ found_sections = EmptyDict
    /\ blocks = <<>>
    /\ data = EmptyDict
    /\ final_info = EmptyDict
    /\ result = EmptyDict
    /\ error = "none"
    /\ NoBatch

NextExcelencia == ParseExcelencia

SpecExcelencia == InitExcelencia /\ [][NextExcelencia]_vars


---------------------------------------------------------------------------
(* parse_cuantias on lists of branches of study, each followed by its percentage *)

MaxRamas == 2

RamaNames ==
    <<"Artes y Humanidades", "Ciencias Sociales y Jurídicas", "Ciencias de la Salud",
      "Ingeniería o Arquitectura/enseñanzas técnicas", "Ciencias", "CIENCIAS DE LA SALUD">>

RamaPercentages == <<"9", "80">>

\* the lists of at most MaxRamas branches, each with a percentage
RamaLists ==
    UNION {[1..n -> [name : 1..Len(RamaNames), porc : 1..Len(RamaPercentages)]] :
             n \in 0..MaxRamas}

\* the item of a branch: its name, its percentage and the sign
RamaItem(r) == Str(RamaNames[r.name]) \o " " \o RamaPercentages[r.porc] \o "%"

\* the items from number k on, with a comma and a space between them
RECURSIVE RamaItems(_, _)
RamaItems(rl, k) ==
    IF k > Len(rl) THEN ""
    ELSE RamaItem(rl[k]) \o (IF k < Len(rl) THEN ", " ELSE "") \o RamaItems(rl, k + 1)

RamaTexts == {RamaItems(rl, 1) : rl \in RamaLists}

InitRamas ==
    /\ text \in RamaTexts
    /\ pc = "input"
    /\ matches = <<>>
    /\ i = 0
    /\ found_sections = EmptyDict
    /\ blocks = <<>>
    /\ data = EmptyDict
    /\ final_info = EmptyDict
    /\ result = EmptyDict
    /\ error = "none"
    /\ NoBatch

NextRamas == ParseCuantias

SpecRamas == InitRamas /\ [][NextRamas]_vars


---------------------------------------------------------------------------
(* locate_sections on a document with one heading: a synonym of SECTIONS, as
   written there or in lower case, on a line of its own, and a body after it *)

SynonymLeads == <<"", "Resuelvo:\n">>
SynonymBody == "de 50 euros"

\* the heading: synonym number k of all_titles, in lower case for form 2
SynonymHeading(k, form) == IF form = 2 THEN Lower(all_titles[k]) ELSE all_titles[k]

SynonymText(lead, k, form) ==
    Str(SynonymLeads[lead]) \o SynonymHeading(k, form) \o "\n" \o SynonymBody

InitSynonyms ==
    /\ text \in {SynonymText(lead, k, form) :
                    lead \in DOMAIN SynonymLeads, k \in DOMAIN all_titles, form \in 1..2}
    /\ pc = "start"
    /\ matches = <<>>
    /\ i = 0
    /\ found_sections = EmptyDict
    /\ blocks = <<>>
    /\ data = EmptyDict
    /\ final_info = EmptyDict
    /\ result = EmptyDict
    /\ error = "none"
    /\ NoBatch

SpecSynonyms == InitSynonyms /\ [][Next]_vars


---------------------------------------------------------------------------
(* src/generate_summary_exp2.py, exp3.py and exp4.py: generate_narrative_summary,
   which the three scripts hold in the same words, and refine_text of exp3.
   The record is what json.load returns.  A dict whose order of keys shows in the
   summary is a sequence of <<key, value>> items; a value that is a dict or null is
   Dict(items) or Null; a field value is a string, None for null, or an integer. *)

Null == [tag |-> "null"]
Dict(items) == [tag |-> "dict", items |-> items]

\* d.get(key, default) on the items of a dict
RECURSIVE GetFrom(_, _, _, _)
GetFrom(items, k, key, default) ==
    IF k > Len(items) THEN default
    ELSE IF items[k][1] = key THEN items[k][2]
    ELSE GetFrom(items, k + 1, key, default)

Get(items, key, default) == GetFrom(items, 1, key, default)

\* the truth value of a string or None, and of a dict or null
TruthyField(v) == v # None /\ v # ""
TruthyDict(d) == d.tag = "dict" /\ Len(d.items) > 0

\* str.upper() of one character
UpperChar(c) ==
    IF c \in LowerSet
    THEN LET k == CHOOSE k \in 1..Len(LowerLetters) : SubSeq(LowerLetters, k, k) = c
         IN  SubSeq(UpperLetters, k, k)
    ELSE c

\* the characters str.title() takes as cased: the letters and "º"
CasedSet == UpperSet \cup LowerSet \cup {StrChar("º")}

\* str.title(): a cased character after one that is not cased is put in capitals, a
\* cased character after a cased one in lower case
TitleChar(s, k) ==
    IF k > 1 /\ SubSeq(s, k - 1, k - 1) \in CasedSet
    THEN LowerChar(SubSeq(s, k, k))
    ELSE UpperChar(SubSeq(s, k, k))

\* the characters at offsets a to b - 1 of s.title()
RECURSIVE TitleRange(_, _, _)
TitleRange(s, a, b) ==
    IF b <= a THEN ""
    ELSE IF b = a + 1 THEN TitleChar(s, b)
    ELSE LET mid == (a + b) \div 2
         IN  TitleRange(s, a, mid) \o TitleRange(s, mid, b)

Title(s) == TitleRange(s, 0, Len(s))

\* key.replace('_', ' ').title()
KeyTitle(key) == Title(Replace(key, "_", " "))

\* the sentences of the list comprehensions of lines 33, 39, 45 and 51 of exp2
Requires(k, v) == KeyTitle(k) \o " requiere " \o v
WithMinimum(rama, porc) == KeyTitle(rama) \o Str(" con un mínimo de ") \o ToString(porc) \o "%"
OfValue(clave, valor) == KeyTitle(clave) \o " de " \o valor

ItemSentence(kind, k, v) ==
    CASE kind = "requiere" -> Requires(k, v)
      [] kind = "minimo" -> WithMinimum(k, v)
      [] OTHER -> OfValue(k, v)

\* '. '.join of the sentences of the items
RECURSIVE JoinItems(_, _, _)
JoinItems(items, k, kind) ==
    IF k > Len(items) THEN ""
    ELSE ItemSentence(kind, items[k][1], items[k][2])
         \o (IF k < Len(items) THEN ". " ELSE "") \o JoinItems(items, k + 1, kind)

\* the sections whose value the function calls .get on: a null there raises
\* AttributeError
NarrativeRaises(parsed) ==
    \E key \in {"plazo", "requisitos", "solicitud"} :
        Get(parsed, key, Dict(<<>>)).tag = "null"

\* mutant of generate_narrative_summary: the last character is never taken off
generate_narrative_summaryNoTrim(parsed) ==
    LET fecha_limite == Get(Get(parsed, "plazo", Dict(<<>>)).items,
                            "plazo_presentacion_fin", None)
        requisitos_minimos == Get(Get(parsed, "requisitos", Dict(<<>>)).items,
                                  "matriculacion_minima", Dict(<<>>))
        porcentajes_minimos == Get(Get(parsed, "requisitos", Dict(<<>>)).items,
                           "porcentajes_por_rama", Dict(<<>>))
        cuantias == Get(parsed, "cuantias", Dict(<<>>))
        excelencia == Get(parsed, "excelencia", Dict(<<>>))
        presentacion == Get(Get(parsed, "solicitud", Dict(<<>>)).items,
                            "donde_presentar", None)
        partes ==
            (IF TruthyField(fecha_limite)
             THEN <<Str("La convocatoria de beca establece que la fecha límite para presentar la solicitud es el ")
                    \o fecha_limite \o ".">>
             ELSE <<Str("La convocatoria no especifica una fecha límite para la presentación de la solicitud.")>>)
            \o (IF TruthyDict(requisitos_minimos)
                THEN <<"Entre los requisitos se exige: "
                       \o JoinItems(requisitos_minimos.items, 1, "requiere") \o ".">>
                ELSE <<>>)
            \o (IF TruthyDict(porcentajes_minimos)
                THEN <<Str("Asimismo, se establecen porcentajes mínimos por rama: ")
                       \o JoinItems(porcentajes_minimos.items, 1, "minimo") \o ".">>
                ELSE <<>>)
            \o (IF TruthyDict(cuantias)
                THEN <<Str("En términos económicos, la convocatoria dispone cuantías tales como ")
                       \o JoinItems(cuantias.items, 1, "de") \o ".">>
                ELSE <<>>)
            \o (IF TruthyDict(excelencia)
                THEN <<Str("Además, se contemplan incentivos de excelencia, por ejemplo, ")
                       \o JoinItems(excelencia.items, 1, "de") \o ".">>
                ELSE <<>>)
            \o (IF TruthyField(presentacion)
                THEN <<Str("Los interesados deberán presentar la solicitud en: ")
                       \o presentacion \o ".">>
                ELSE <<"No se especifica el lugar para presentar la solicitud.">>)
    IN  Strip(Join(partes, " "))

\* generate_narrative_summary(parsed) for a record on which it does not raise
generate_narrative_summary(parsed) ==
    LET fecha_limite == Get(Get(parsed, "plazo", Dict(<<>>)).items,
                            "plazo_presentacion_fin", None)
        requisitos_minimos == Get(Get(parsed, "requisitos", Dict(<<>>)).items,
                                  "matriculacion_minima", Dict(<<>>))
        porcentajes_minimos == Get(Get(parsed, "requisitos", Dict(<<>>)).items,
                           "porcentajes_por_rama", Dict(<<>>))
        cuantias == Get(parsed, "cuantias", Dict(<<>>))
        excelencia == Get(parsed, "excelencia", Dict(<<>>))
        presentacion == Get(Get(parsed, "solicitud", Dict(<<>>)).items,
                            "donde_presentar", None)
        partes ==
            (IF TruthyField(fecha_limite)
             THEN <<Str("La convocatoria de beca establece que la fecha límite para presentar la solicitud es el ")
                    \o fecha_limite \o ".">>
             ELSE <<Str("La convocatoria no especifica una fecha límite para la presentación de la solicitud.")>>)
            \o (IF TruthyDict(requisitos_minimos)
                THEN <<"Entre los requisitos se exige: "
                       \o JoinItems(requisitos_minimos.items, 1, "requiere") \o ".">>
                ELSE <<>>)
            \o (IF TruthyDict(porcentajes_minimos)
                THEN <<Str("Asimismo, se establecen porcentajes mínimos por rama: ")
                       \o JoinItems(porcentajes_minimos.items, 1, "minimo") \o ".">>
                ELSE <<>>)
            \o (IF TruthyDict(cuantias)
                THEN <<Str("En términos económicos, la convocatoria dispone cuantías tales como ")
                       \o JoinItems(cuantias.items, 1, "de") \o ".">>
                ELSE <<>>)
            \o (IF TruthyDict(excelencia)
                THEN <<Str("Además, se contemplan incentivos de excelencia, por ejemplo, ")
                       \o JoinItems(excelencia.items, 1, "de") \o ".">>
                ELSE <<>>)
            \o (IF TruthyField(presentacion)
                THEN <<Str("Los interesados deberán presentar la solicitud en: ")
                       \o presentacion \o ".">>
                ELSE <<"No se especifica el lugar para presentar la solicitud.">>)
        summary_text == Strip(Join(partes, " "))
    IN  IF EndsWith(summary_text, "..")
        THEN Slice(summary_text, 0, Len(summary_text) - 1)
        ELSE summary_text

\* the scripts that hold generate_narrative_summary
NarrativeScripts ==
    {"generate_summary_exp2", "generate_summary_exp3", "generate_summary_exp4"}

\* the function as the script s holds it: the three bodies are the same statements
NarrativeOfScript(s, parsed) == generate_narrative_summary(parsed)

\* refine_text, lines 66-91: the replacements in the order of the dict
Replacements ==
    <<<<"the solicitud", "la solicitud">>,
      <<Str("or denegación"), Str("o denegación")>>,
      <<"with un mminimo", Str("con un mínimo")>>,
      <<"mminimo", Str("mínimo")>>,
      <<"mnimo", Str("mínimo")>>,
      <<"ensanzas", Str("enseñanzas")>>,
      <<"Ensanzas", Str("Enseñanzas")>>,
      <<"Msica", Str("Música")>>,
      <<"Diseo", Str("Diseño")>>,
      <<"Capitulo", Str("CAPÍTULO")>>,
      <<"with ", "con ">>,
      <<" of ", " de ">>,
      <<" un mminimo", Str(" un mínimo")>>,
      <<"mnimos", Str("mínimos")>>,
      <<"Excel Valencia", "Excelencia">>,
      <<"BecaBasica Fp Basico", "Beca Basica FP Basico">>,
      <<"BecA Basica FP Basico", "Beca Basica FP Basico">>,
      <<"and", "y">>,
      <<"  ,", ",">>,
      <<" ,", ",">>,
      <<" Fija Basica normal", " Beca Basica Normal">>,
      <<"Variables Minima", "Variable Minima">>,
      <<"Beca Basica Fp Basico de 60,000", "">>>>

RECURSIVE RefineFrom(_, _)
RefineFrom(refined, k) ==
    IF k > Len(Replacements) THEN refined
    ELSE RefineFrom(Replace(refined, Replacements[k][1], Replacements[k][2]), k + 1)

refine_text(txt) == RefineFrom(txt, 1)

\* the text process_all writes: the script's models raising or not
WrittenSummary(s, narrative_summary, raised) ==
    CASE s = "generate_summary_exp2" ->
            IF raised[1] THEN narrative_summary
            ELSE Computed("ai_summarizer", narrative_summary)
      [] s = "generate_summary_exp3" ->
            refine_text(IF raised[1] THEN narrative_summary
                        ELSE Computed("ai_summarizer", narrative_summary))
      [] OTHER ->
            LET english_translation == IF raised[1] THEN narrative_summary
                                       ELSE Computed("translator_es_en", narrative_summary)
                summarized_english == IF raised[2] THEN english_translation
                                      ELSE Computed("english_summarizer", english_translation)
            IN  IF raised[3] THEN summarized_english
                ELSE Computed("translator_en_es", summarized_english)

\* the records: each section missing, null, or a dict of its fields
PlazoValues ==
    <<Dict(<<<<"plazo_presentacion_fin", None>>>>),
      Dict(<<<<"plazo_presentacion_fin", "15 de octubre de 2024">>>>),
      Null>>

RequisitosValues ==
    <<Dict(<<<<"matriculacion_minima", Dict(<<>>)>>>>),
      Dict(<<<<"matriculacion_minima", Dict(<<<<Str("Título"), "4 asignaturas.">>>>)>>,
             <<"porcentajes_por_rama", Dict(<<<<"ciencias_de_la_salud", 9>>>>)>>>>),
      Dict(<<<<"matriculacion_minima",
               Dict(<<<<"Estudiantes de grandes centros", "cosa , otra">>,
                      <<Str("1.º)"), "">>>>)>>>>),
      Dict(<<<<"matriculacion_minima", Null>>>>)>>

CuantiasValues ==
    <<Dict(<<<<"beca_matricula", None>>, <<"fija_renta", None>>,
             <<"fija_residencia", None>>, <<"beca_basica_normal", None>>,
             <<"beca_basica_fp_basico", None>>, <<"variable_minima", None>>>>),
      Dict(<<<<"beca_matricula", None>>, <<"fija_renta", "1600">>,
             <<"fija_residencia", None>>, <<"beca_basica_normal", None>>,
             <<"beca_basica_fp_basico", "60,000">>, <<"variable_minima", "60">>>>),
      Null>>

ExcelenciaValues ==
    <<Dict(<<<<"nota_minima_excelencia", "8,00">>, <<"excelencia_cuantia_min", "50">>,
             <<"excelencia_cuantia_max", "125">>>>)>>

\* the section texts parse_solicitud read donde_presentar from
SolicitudTexts ==
    <<"", Str("Las solicitudes se presentarán en la sede de Santander. Fin."),
      Str("Solicitudes se presentarán.. en línea.")>>

\* the solicitud sections: those of parse_solicitud, and one written by hand
SolicitudValues ==
    [k \in DOMAIN SolicitudTexts |->
        Dict(<<<<"donde_presentar", parse_solicitud(SolicitudTexts[k]).donde_presentar>>>>)]
    \o <<Dict(<<<<"donde_presentar", "la sede..">>>>)>>

\* the items of a section: none for choice 0, which is the key missing
SectionItem(key, values, choice) ==
    IF choice = 0 THEN <<>> ELSE <<<<key, values[choice]>>>>

Records ==
    {SectionItem("requisitos", RequisitosValues, r)
     \o SectionItem("cuantias", CuantiasValues, c)
     \o SectionItem("excelencia", ExcelenciaValues, e)
     \o SectionItem("plazo", PlazoValues, p)
     \o SectionItem("solicitud", SolicitudValues, s) :
        r \in 0..Len(RequisitosValues), c \in 0..Len(CuantiasValues),
        e \in 0..Len(ExcelenciaValues), p \in 0..Len(PlazoValues),
        s \in 0..Len(SolicitudValues)}

InitNarrative ==
    /\ stage \in NarrativeScripts
    /\ data \in Records
    /\ pc = "loaded"
    /\ text = ""
    /\ result = ""
    /\ error = "none"
    /\ log = <<>>
    /\ listing = <<>>
    /\ position = 0
    /\ outputs = <<>>
    /\ calls = <<>>
    /\ matches = <<>>
    /\ i = 0
    /\ found_sections = EmptyDict
    /\ blocks = <<>>
    /\ final_info = EmptyDict

\* process_all, exp2 line 93, exp3 line 125, exp4 line 100: the narrative summary of
\* the record; what the function raises leaves the loop
GenerateNarrative ==
    /\ pc = "loaded"
    /\ IF NarrativeRaises(data)
       THEN /\ error' = "AttributeError"
            /\ pc' = "raised"
            /\ UNCHANGED result
       ELSE /\ result' = NarrativeOfScript(stage, data)
            /\ pc' = "narrative"
            /\ UNCHANGED error
    /\ UNCHANGED <<stage, listing, position, outputs, log, calls>>
    /\ UNCHANGED <<text, matches, i, found_sections, blocks, data, final_info>>

\* process_all, exp2 lines 96-109 and exp3 lines 127-146: the model is called, what
\* it raises is printed, and the summary is written
Reformulate ==
    /\ pc = "narrative"
    /\ stage \in {"generate_summary_exp2", "generate_summary_exp3"}
    /\ \E raised \in BOOLEAN :
          /\ text' = WrittenSummary(stage, result, <<raised>>)
          /\ log' = IF raised THEN <<"ai_summarizer">> ELSE <<>>
    /\ pc' = "written"
    /\ UNCHANGED <<stage, listing, position, outputs, calls, error>>
    /\ UNCHANGED <<matches, i, found_sections, blocks, data, final_info, result>>

\* process_all of exp4, lines 103-131: the three models are called in turn
TranslateAndSummarise ==
    /\ pc = "narrative"
    /\ stage = "generate_summary_exp4"
    /\ \E raised \in [1..3 -> BOOLEAN] :
          /\ text' = WrittenSummary(stage, result, raised)
          /\ log' = SelectSeq(<<"translator_es_en", "english_summarizer", "translator_en_es">>,
                              LAMBDA m : \E k \in 1..3 :
                                  raised[k] /\ m = <<"translator_es_en", "english_summarizer",
                                                     "translator_en_es">>[k])
    /\ pc' = "written"
    /\ UNCHANGED <<stage, listing, position, outputs, calls, error>>
    /\ UNCHANGED <<matches, i, found_sections, blocks, data, final_info, result>>

NextNarrative ==
    \/ GenerateNarrative
    \/ Reformulate
    \/ TranslateAndSummarise

SpecNarrative == InitNarrative /\ [][NextNarrative]_vars


---------------------------------------------------------------------------
(* src/information_extraction.py: the chunks of extract_info_with_qa, lines 305-325.
   sent_tokenize is NLTK's: the model takes the sentences it returns as given, each
   non-empty and without blanks at its ends, and the text as the sentences joined by
   one blank.  listing holds sentences, position the index of the for loop, result
   current_chunk and outputs text_chunks. *)

max_length == 512

MaxSentences == 3

\* the lengths of the sentences: short ones, two that fill a chunk to the character,
\* and two that reach max_length
SentenceLengths == <<6, 200, 256, 310, 511, 512>>

RECURSIVE Repeat(_, _)
Repeat(c, n) ==
    IF n <= 0 THEN ""
    ELSE IF n = 1 THEN c
    ELSE Repeat(c, n \div 2) \o Repeat(c, n - n \div 2)

\* the k-th sentence, n characters long
SentenceOf(k, n) == Repeat(SubSeq("abcd", k, k), n - 5) \o " fin."

SentenceLists ==
    UNION {[1..n -> DOMAIN SentenceLengths] : n \in 1..MaxSentences}

InitChunks ==
    /\ \E lengths \in SentenceLists :
          /\ listing = [k \in DOMAIN lengths |-> SentenceOf(k, SentenceLengths[lengths[k]])]
          /\ text = Join(listing, " ")
    /\ pc = "qa_input"
    /\ stage = "information_extraction"
    /\ position = 0
    /\ result = ""
    /\ outputs = <<>>
    /\ error = "none"
    /\ log = <<>>
    /\ calls = <<>>
    /\ matches = <<>>
    /\ i = 0
    /\ found_sections = EmptyDict
    /\ blocks = <<>>
    /\ data = EmptyDict
    /\ final_info = EmptyDict

\* lines 306-312 and 324-325: a text of at most max_length characters is the one
\* chunk; a longer one is split into sentences and the loop starts
ChunkStart ==
    /\ pc = "qa_input"
    /\ IF Len(text) > max_length
       THEN /\ pc' = "chunking"
            /\ position' = 1
            /\ result' = ""
            /\ outputs' = <<>>
       ELSE /\ pc' = "chunked"
            /\ outputs' = <<text>>
            /\ UNCHANGED <<position, result>>
    /\ UNCHANGED <<stage, listing, log, calls, error>>
    /\ UNCHANGED <<text, matches, i, found_sections, blocks, data, final_info>>

\* lines 314-319: one turn of the for loop over the sentences
ChunkSentence ==
    /\ pc = "chunking"
    /\ position <= Len(listing)
    /\ LET sentence == listing[position]
       IN  IF Len(result) + Len(sentence) < max_length
           THEN /\ result' = result \o sentence \o " "
                /\ UNCHANGED outputs
           ELSE /\ outputs' = Append(outputs, Strip(result))
                /\ result' = sentence \o " "
    /\ position' = position + 1
    /\ UNCHANGED <<pc, stage, listing, log, calls, error>>
    /\ UNCHANGED <<text, matches, i, found_sections, blocks, data, final_info>>

\* lines 321-323: the loop is over and the last chunk is added
ChunkLast ==
    /\ pc = "chunking"
    /\ position > Len(listing)
    /\ outputs' = IF result # "" THEN Append(outputs, Strip(result)) ELSE outputs
    /\ pc' = "chunked"
    /\ UNCHANGED <<stage, listing, position, result, log, calls, error>>
    /\ UNCHANGED <<text, matches, i, found_sections, blocks, data, final_info>>

NextChunks ==
    \/ ChunkStart
    \/ ChunkSentence
    \/ ChunkLast

SpecChunks == InitChunks /\ [][NextChunks]_vars


---------------------------------------------------------------------------
(* src/txt2json.py: spacy_extractor, lines 72-139.  The document is what spaCy's
   pipeline returns: sentences, each with its text, its entities (text and label),
   whether one of its tokens is like a number, and the lemmas of its tokens.  listing
   holds doc.sents, position the index of the for loop over them and i that of the
   loop over sent.ents; found_sections holds entidades, data the counters, outputs
   frases_accion, final_info the arguments of the call and result what is returned.
   blocks records, for each entity gone through, the list it was appended to. *)

\* the sentences of the documents
SpacySentences ==
    <<[text |-> "El plazo termina el 3 de mayo.",
       ents |-> <<[text |-> "3 de mayo", label |-> "DATE"]>>,
       like_num |-> TRUE, lemmas |-> <<"el", "plazo", "terminar">>],
      [text |-> "La UC otorga 500 Euros el 3 de mayo.",
       ents |-> <<[text |-> "UC", label |-> "ORG"], [text |-> "500 Euros", label |-> "MONEY"],
                  [text |-> "3 de mayo", label |-> "DATE"]>>,
       like_num |-> TRUE, lemmas |-> <<"otorgar", "euro">>],
      [text |-> "El Ministerio convoca, solicita y financia; Ana convoca.",
       ents |-> <<[text |-> "Ministerio", label |-> "ORG"], [text |-> "Ana", label |-> "PER"]>>,
       like_num |-> FALSE,
       lemmas |-> <<"convocar", "solicitar", "y", "financiar", "convocar">>],
      [text |-> Str("La Consejería de Educación del Gobierno de Cantabria convoca las becas de este curso para los estudiantes de la UC que tengan su residencia en un municipio de Cantabria y 9 €."),
       ents |-> <<[text |-> "Cantabria", label |-> "LOC"], [text |-> "UC", label |-> "ORG"]>>,
       like_num |-> TRUE, lemmas |-> <<"convocar">>],
      [text |-> "Se solicita en la sede una vez cada curso por cada uno de los estudiantes que la piden a lo largo de todo el curso de la beca en la ventanilla de la sede de la ciudad o de su campus",
       ents |-> <<>>, like_num |-> FALSE, lemmas |-> <<"solicitar">>]>>

\* a document: up to MaxHead sentences of any kind, and then none or a run of the
\* fourth sentence, long enough for the loop of line 124 to break
MaxHead == 2
TailLengths == {0, 8}
TailSentence == SpacySentences[4]

\* the values of the argument max_entities
EntityLimits == 0..2

SpacyHeads == UNION {[1..n -> DOMAIN SpacySentences] : n \in 0..MaxHead}

SpacyDoc(head, tail_, sentence) ==
    [k \in 1..(Len(head) + tail_) |->
        IF k <= Len(head) THEN SpacySentences[head[k]] ELSE sentence]

\* doc.ents: the entities of the sentences in their order
RECURSIVE DocEntsFrom(_, _)
DocEntsFrom(sents, k) ==
    IF k > Len(sents) THEN <<>> ELSE sents[k].ents \o DocEntsFrom(sents, k + 1)

DocEnts(sents) == DocEntsFrom(sents, 1)

\* str.split() of a sentence: the words between blanks
Words(sentence) ==
    SelectSeq(Split(Replace(Replace(sentence, "\n", " "), "\t", " "), " "),
              LAMBDA w : w # "")

\* shorten_sentence, lines 83-93, in a document whose entities are doc_ents
shorten_sentence(sentence, max_length_, doc_ents) ==
    IF Len(sentence) <= max_length_ THEN sentence
    ELSE IF \E k \in DOMAIN doc_ents : Contains(sentence, doc_ents[k].text)
    THEN LET k == CHOOSE k \in DOMAIN doc_ents :
                     /\ Contains(sentence, doc_ents[k].text)
                     /\ \A j \in 1..(k - 1) : ~Contains(sentence, doc_ents[j].text)
             at == Find(sentence, doc_ents[k].text)
             start == IF at - 20 > 0 THEN at - 20 ELSE 0
             end == IF at + Len(doc_ents[k].text) + 20 < Len(sentence)
                    THEN at + Len(doc_ents[k].text) + 20 ELSE Len(sentence)
         IN  Slice(sentence, start, end) \o "..."
    ELSE LET words == Words(sentence)
         IN  IF Len(words) > 15 THEN Join(SubSeq(words, 1, 15), " ") \o "..."
             ELSE sentence

\* mutant of EntType: the counters are not looked at
EntTypeUncounted(ent, sent, counters, max_entities) ==
    IF ent.label = "DATE" THEN "FECHAS"
    ELSE IF \/ ent.label = "MONEY"
            \/ sent.like_num /\ Contains(sent.text, Str("€"))
            \/ sent.like_num /\ Contains(Lower(sent.text), "euro")
    THEN "DINERO"
    ELSE IF ent.label = "ORG" THEN "ORG"
    ELSE None

\* ent_type, lines 101-110
EntType(ent, sent, counters, max_entities) ==
    IF ent.label = "DATE" /\ counters["FECHAS"] < max_entities THEN "FECHAS"
    ELSE IF /\ \/ ent.label = "MONEY"
               \/ sent.like_num /\ Contains(sent.text, Str("€"))
               \/ sent.like_num /\ Contains(Lower(sent.text), "euro")
            /\ counters["DINERO"] < max_entities
    THEN "DINERO"
    ELSE IF ent.label = "ORG" /\ counters["ORG"] < max_entities THEN "ORG"
    ELSE None

verbos_accion == {"convocar", "requerir", "solicitar", "otorgar", "financiar"}

\* list(set(action_verbs))[:2]: the set gives its members in an order of its own, so
\* any two of the distinct verbs, in either order
TwoOf(action_verbs) ==
    LET distinct == {action_verbs[k] : k \in DOMAIN action_verbs}
    IN  IF Cardinality(distinct) = 1 THEN {<<v>> : v \in distinct}
        ELSE {<<v, w>> : v \in distinct, w \in distinct} \ {<<v, v>> : v \in distinct}

InitSpacy ==
    /\ \E head \in SpacyHeads, tail_ \in TailLengths :
          listing = SpacyDoc(head, tail_, TailSentence)
    /\ \E max_entities \in EntityLimits :
          final_info = [max_entities |-> max_entities, max_sentence_length |-> 120]
    /\ pc = "entities"
    /\ stage = "txt2json"
    /\ position = 1
    /\ i = 1
    /\ found_sections = [FECHAS |-> <<>>, DINERO |-> <<>>, ORG |-> <<>>]
    /\ data = [FECHAS |-> 0, DINERO |-> 0, ORG |-> 0]
    /\ blocks = <<>>
    /\ outputs = <<>>
    /\ result = ""
    /\ text = ""
    /\ error = "none"
    /\ log = <<>>
    /\ calls = <<>>
    /\ matches = <<>>

\* lines 100-118: one turn of the loop over the entities of a sentence
ExtractEntity ==
    /\ pc = "entities"
    /\ position <= Len(listing)
    /\ i <= Len(listing[position].ents)
    /\ LET sent == listing[position]
           ent == sent.ents[i]
           ent_type == EntType(ent, sent, data, final_info.max_entities)
       IN  /\ IF ent_type # None
              THEN /\ found_sections' =
                        [found_sections EXCEPT ![ent_type] =
                            Append(@, [entidad |-> ent.text,
                                       frase |-> shorten_sentence(sent.text,
                                                    final_info.max_sentence_length,
                                                    DocEnts(listing)),
                                       tipo |-> ent.label])]
                   /\ data' = [data EXCEPT ![ent_type] = @ + 1]
              ELSE UNCHANGED <<found_sections, data>>
           /\ blocks' = Append(blocks, [sent |-> position, ent |-> i, list |-> ent_type])
    /\ i' = i + 1
    /\ UNCHANGED <<pc, stage, listing, position, outputs, log, calls, error>>
    /\ UNCHANGED <<text, matches, final_info, result>>

\* line 99: the entities of the sentence are through; the next sentence, and after
\* the last one the loop of line 124
NextSentence ==
    /\ pc = "entities"
    /\ position <= Len(listing)
    /\ i > Len(listing[position].ents)
    /\ IF position < Len(listing)
       THEN position' = position + 1 /\ UNCHANGED pc
       ELSE position' = 1 /\ pc' = "actions"
    /\ i' = 1
    /\ UNCHANGED <<stage, listing, outputs, log, calls, error>>
    /\ UNCHANGED <<text, matches, found_sections, blocks, data, final_info, result>>

\* lines 124-133: one turn of the loop over the sentences, short of 8 phrases
ActionSentence ==
    /\ pc = "actions"
    /\ position <= Len(listing)
    /\ Len(outputs) < 8
    /\ LET sent == listing[position]
           action_verbs == SelectSeq(sent.lemmas, LAMBDA lemma : lemma \in verbos_accion)
       IN  IF Len(action_verbs) > 0
           THEN \E verbos \in TwoOf(action_verbs) :
                   outputs' = Append(outputs,
                       [frase |-> shorten_sentence(sent.text, final_info.max_sentence_length,
                                                   DocEnts(listing)),
                        verbos |-> verbos])
           ELSE UNCHANGED outputs
    /\ position' = position + 1
    /\ UNCHANGED <<pc, stage, listing, log, calls, error>>
    /\ UNCHANGED <<text, matches, i, found_sections, blocks, data, final_info, result>>

\* lines 125-126 and 135-141: the loop ends, by the break or with the sentences, and
\* the result is returned
ReturnResultados ==
    /\ pc = "actions"
    /\ position > Len(listing) \/ Len(outputs) >= 8
    /\ result' =
          [entidades |->
              [k \in DOMAIN found_sections |->
                  SubSeq(found_sections[k], 1,
                         IF final_info.max_entities < Len(found_sections[k])
                         THEN final_info.max_entities ELSE Len(found_sections[k]))],
           frases_accion |-> outputs]
    /\ pc' = "returned"
    /\ UNCHANGED <<stage, listing, position, outputs, log, calls, error>>
    /\ UNCHANGED <<text, matches, i, found_sections, blocks, data, final_info>>

NextSpacy ==
    \/ ExtractEntity
    \/ NextSentence
    \/ ActionSentence
    \/ ReturnResultados

SpecSpacy == InitSpacy /\ [][NextSpacy]_vars


---------------------------------------------------------------------------
(* Properties of locate_sections *)

AllSectionKeys == {"requisitos", "cuantias", "plazo", "solicitud", "excelencia"}

\* the content of a section as found_sections holds it
ContentOf(fs, key) == fs[key][1].content

\* C1: from its initialisation to its return, and for every text, the mapping of
\* locate_sections has exactly the five section keys, each holding one entry whose
\* content is a string.
C1_ExactSectionKeys ==
    pc # "start" =>
        /\ DOMAIN found_sections = AllSectionKeys
        /\ \A key \in DOMAIN found_sections :
              /\ Len(found_sections[key]) = 1
              /\ "content" \in DOMAIN found_sections[key][1]
              /\ found_sections[key][1].content \in STRING

\* locate_sections has returned for the empty text
C1_Witness == pc = "located" /\ text = ""

\* the offsets of the text that lie in block number k
InBlock(k, p) == blocks[k].start <= p /\ p < blocks[k].end

BlocksHolding(p) == {k \in 1..Len(blocks) : InBlock(k, p)}

\* block k runs from its heading's start to the next heading's start, the last one
\* to the end of the text, and no block is empty
BlocksFollowMatches ==
    /\ Len(blocks) = Len(matches)
    /\ \A k \in 1..Len(blocks) :
          /\ blocks[k].start = matches[k].start
          /\ blocks[k].end = IF k < Len(matches) THEN matches[k + 1].start ELSE Len(text)
          /\ blocks[k].start < blocks[k].end
    /\ \A k \in 1..(Len(blocks) - 1) : blocks[k].end <= blocks[k + 1].start

\* C2 as claimed: the blocks are ordered, pairwise disjoint, and every character of
\* the text lies in exactly one block.
C2_PartitionWholeText ==
    pc = "located" =>
        /\ BlocksFollowMatches
        /\ \A p \in 0..(Len(text) - 1) : Cardinality(BlocksHolding(p)) = 1

\* C2 as amended: the blocks are ordered, pairwise disjoint, and partition the text
\* from the start of the first heading match to its end; a character before the
\* first match (every character when nothing matches) lies in no block.
C2_PartitionFromFirstHeading ==
    pc = "located" =>
        /\ BlocksFollowMatches
        /\ \A p \in 0..(Len(text) - 1) :
              Cardinality(BlocksHolding(p)) =
                  IF Len(matches) > 0 /\ p >= matches[1].start THEN 1 ELSE 0

\* two or more blocks, after text that precedes the first heading
C2_Witness == pc = "located" /\ Len(blocks) >= 2 /\ blocks[1].start > 0

\* the synonyms of each section, lower-cased
SynonymsLower ==
    [key \in AllSectionKeys |-> [j \in DOMAIN SECTIONS[key] |-> Lower(SECTIONS[key][j])]]

\* whether a synonym of the section occurs in the heading, whatever the case
Qualifies(key, heading) ==
    LET heading_lower == Lower(heading)
    IN  \E j \in DOMAIN SynonymsLower[key] : Contains(heading_lower, SynonymsLower[key][j])

HeadingOf(k) == Slice(text, matches[k].start, matches[k].end)

\* C3: the block of each heading match went to no section when no section has a
\* synonym inside the heading, and otherwise to exactly one: the first such section
\* in the declared order.
C3_FirstSectionWins ==
    \A k \in 1..Len(blocks) :
        LET q == {n \in 1..Len(SectionKeys) : Qualifies(SectionKeys[n], HeadingOf(k))}
        IN  blocks[k].keys =
                IF q = {} THEN {}
                ELSE {SectionKeys[CHOOSE n \in q : \A m \in q : n <= m]}

\* a heading written in another case than its synonym went to its section
C3_Witness ==
    \E k \in 1..Len(blocks) : HeadingOf(k) = Str("Cuantía") /\ blocks[k].keys = {"cuantias"}

\* the texts of the blocks that went to the section, in match order, from block k on
RECURSIVE SpanTexts(_, _, _)
SpanTexts(key, k, stripped) ==
    IF k > Len(blocks) THEN <<>>
    ELSE LET raw == Slice(text, matches[k].start,
                          IF k < Len(matches) THEN matches[k + 1].start ELSE Len(text))
         IN  (IF key \in blocks[k].keys
              THEN <<IF stripped THEN Strip(raw) ELSE raw>> ELSE <<>>)
             \o SpanTexts(key, k + 1, stripped)

\* each text of the sequence with the separator before it
RECURSIVE Prefixed(_, _, _)
Prefixed(texts, k, sep) ==
    IF k > Len(texts) THEN "" ELSE sep \o texts[k] \o Prefixed(texts, k + 1, sep)

\* C4 as claimed: when the loop has ended, the content of each section is the texts
\* of its blocks joined with "\n\n" between consecutive blocks.
C4_JoinedSpans ==
    pc = "loop" /\ i = Len(matches) =>
        \A key \in AllSectionKeys :
            ContentOf(found_sections, key) = JoinFrom(SpanTexts(key, 1, FALSE), 1, "\n\n")

\* C4 as amended: during and after the loop, the content of each section is the
\* concatenation, in match order, of "\n\n" followed by the block's text with its
\* leading and trailing whitespace stripped, over the blocks that went to it.
C4_PrefixedStrippedSpans ==
    pc = "loop" =>
        \A key \in AllSectionKeys :
            ContentOf(found_sections, key) = Prefixed(SpanTexts(key, 1, TRUE), 1, "\n\n")

\* the loop has ended and a section got two blocks, whose stripping changed them
C4_Witness ==
    /\ pc = "loop"
    /\ i = Len(matches)
    /\ \E key \in AllSectionKeys :
          /\ Len(SpanTexts(key, 1, TRUE)) >= 2
          /\ SpanTexts(key, 1, TRUE) # SpanTexts(key, 1, FALSE)

\* whether the text holds "€" or, in any case, "euros"
MentionsEuros(c) ==
    \E a \in 0..(Len(c) - 1) :
        \/ SubSeq(c, a + 1, a + 1) = Str("€")
        \/ a + 5 <= Len(c) /\ Lower(Slice(c, a, a + 5)) = "euros"

\* C5: the step that ends locate_sections empties the content of cuantias when it
\* holds neither "€" nor "euros" in any case; the content it returns, when not
\* empty, holds one of them; and the other four sections are left as they were.
C5_AmountsFilter ==
    [][pc = "loop" /\ pc' = "located" =>
        /\ ~MentionsEuros(ContentOf(found_sections, "cuantias"))
              => ContentOf(found_sections', "cuantias") = ""
        /\ ContentOf(found_sections', "cuantias") # ""
              => MentionsEuros(ContentOf(found_sections', "cuantias"))
        /\ \A key \in AllSectionKeys \ {"cuantias"} :
              found_sections'[key] = found_sections[key]]_vars

\* a block went to cuantias and the returned content of cuantias is empty
C5_Witness ==
    /\ pc = "located"
    /\ \E k \in 1..Len(blocks) : "cuantias" \in blocks[k].keys
    /\ ContentOf(found_sections, "cuantias") = ""

\* no synonym of any section occurs in the text, whatever the case
NoHeading(txt) ==
    LET txt_lower == Lower(txt)
    IN  \A key \in AllSectionKeys :
            \A j \in DOMAIN SynonymsLower[key] : ~Contains(txt_lower, SynonymsLower[key][j])

\* C6: for a text in which no synonym occurs, locate_sections returns without an
\* error and with every section's content empty.
C6_NoMatchAllEmpty ==
    pc = "located" /\ NoHeading(text) =>
        /\ error = "none"
        /\ \A key \in AllSectionKeys :
              key \in DOMAIN found_sections /\ ContentOf(found_sections, key) = ""

\* locate_sections has returned for a text that is not empty and holds no synonym
C6_Witness == pc = "located" /\ text # "" /\ NoHeading(text)

---------------------------------------------------------------------------
(* Properties of parse_sections.main and of the field parsers *)

\* C7: main's assembly of a section mapping ends without an exception, its record
\* has exactly the five top-level keys, and a mapping that lacks a key gives the
\* record of the same mapping with that key present and its content empty.
C7_AssemblyTotal ==
    pc \in {"parsed", "raised"} =>
        /\ pc = "parsed"
        /\ error = "none"
        /\ DOMAIN final_info = {"requisitos", "cuantias", "excelencia", "plazo", "solicitud"}
        /\ \A key \in AllSectionKeys \ DOMAIN data :
              final_info = Assemble(Put(data, key, <<[heading |-> key, content |-> ""]>>))

\* a mapping without the key cuantias has been assembled
C7_Witness == pc = "parsed" /\ "cuantias" \notin DOMAIN data

\* C8 as claimed: every assembled record has the same field keys under each
\* top-level key, porcentajes_por_rama under requisitos included.
C8_FixedFieldKeys ==
    pc = "parsed" =>
        /\ DOMAIN final_info.requisitos = {"matriculacion_minima", "porcentajes_por_rama"}
        /\ DOMAIN final_info.cuantias =
              {"beca_matricula", "fija_renta", "fija_residencia", "beca_basica_normal",
               "beca_basica_fp_basico", "variable_minima"}
        /\ DOMAIN final_info.excelencia =
              {"nota_minima_excelencia", "excelencia_cuantia_min", "excelencia_cuantia_max"}
        /\ DOMAIN final_info.plazo = {"plazo_presentacion_fin"}
        /\ DOMAIN final_info.solicitud = {"donde_presentar"}

\* C9: in the assembled record cuantias has no key porcentajes_por_rama; when
\* parse_cuantias gave a non-empty mapping of percentages, requisitos holds exactly
\* that mapping; every other field of cuantias and of requisitos is as parsed.
C9_RamasMoved ==
    pc = "parsed" =>
        LET parsed == Parsed(data)
            por_rama == parsed.cuantias.porcentajes_por_rama
        IN  /\ "porcentajes_por_rama" \notin DOMAIN final_info.cuantias
            /\ DOMAIN por_rama # {} =>
                  /\ "porcentajes_por_rama" \in DOMAIN final_info.requisitos
                  /\ final_info.requisitos.porcentajes_por_rama = por_rama
            /\ DOMAIN final_info.cuantias = DOMAIN parsed.cuantias \ {"porcentajes_por_rama"}
            /\ \A f \in DOMAIN final_info.cuantias : final_info.cuantias[f] = parsed.cuantias[f]
            /\ DOMAIN final_info.requisitos \ {"porcentajes_por_rama"} = DOMAIN parsed.requisitos
            /\ \A f \in DOMAIN parsed.requisitos : final_info.requisitos[f] = parsed.requisitos[f]

\* percentages were found under cuantias and are in the assembled record
C9_Witness == pc = "parsed" /\ "porcentajes_por_rama" \in DOMAIN final_info.requisitos

\* C10: each of the five parsers, called on the empty string, returns without an
\* exception the mapping of its declared fields with their defaults: None, and the
\* empty mapping for matriculacion_minima and porcentajes_por_rama.
C10_EmptyTextDefaults ==
    text = "" /\ pc # "input" =>
        /\ error = "none"
        /\ pc = "parse_requisitos" => result = [matriculacion_minima |-> <<>>]
        /\ pc = "parse_cuantias" =>
              result = [beca_matricula |-> "None", fija_renta |-> "None",
                        fija_residencia |-> "None", beca_basica_normal |-> "None",
                        beca_basica_fp_basico |-> "None", variable_minima |-> "None",
                        porcentajes_por_rama |-> <<>>]
        /\ pc = "parse_excelencia" =>
              result = [nota_minima_excelencia |-> "None", excelencia_cuantia_min |-> "None",
                        excelencia_cuantia_max |-> "None"]
        /\ pc = "parse_plazo" => result = [plazo_presentacion_fin |-> "None"]
        /\ pc = "parse_solicitud" => result = [donde_presentar |-> "None"]

\* parse_cuantias has returned for the empty string
C10_Witness == text = "" /\ pc = "parse_cuantias"

---------------------------------------------------------------------------
(* Properties of the field parsers on texts of a given form *)

\* a bullet: a title and a content
Bullets == [title : 1..Len(BulletTitles), content : 1..Len(BulletContents)]

\* the text is made of bullets "<n>.º) <title>: <content>", one per line, numbered
\* from 1
IsBulletText(txt) ==
    txt = "" \/ \A k \in DOMAIN Split(txt, "\n") :
                    \E b \in Bullets : Split(txt, "\n")[k] = BulletLine(b, k)

\* the bullets of such a text, in their order
BulletsOf(txt) ==
    IF txt = "" THEN <<>>
    ELSE [k \in DOMAIN Split(txt, "\n") |->
             CHOOSE b \in Bullets : Split(txt, "\n")[k] = BulletLine(b, k)]

\* the bullets of the list have pairwise distinct titles
DistinctTitles(bl) ==
    \A a, b \in DOMAIN bl : TitleOf(bl[a]) = TitleOf(bl[b]) => a = b

\* the mapping of each title of the list to the value of its bullet
TitleMapping(bl, Value(_)) ==
    [t \in {TitleOf(bl[k]) : k \in DOMAIN bl} |->
        Value(bl[CHOOSE k \in DOMAIN bl : TitleOf(bl[k]) = t])]

\* what parse_requisitos keeps of a content: "CAPÍTULO III" removed, then stripped
ContentKept(b) == Strip(Remove(ContentOfBullet(b), Str("CAPÍTULO III")))

DigitsOnly(str) == Len(str) > 0 /\ \A k \in 1..Len(str) : SubSeq(str, k, k) \in DigitSet

\* the sentence holds "cuantía fija ligada a la renta", in any case, and an amount in
\* euros
StatesRenta(s) == s.lead \in {1, 2} /\ s.unit \in {1, 2, 3}

\* C12 as claimed: when the text holds "cuantía fija ligada a la renta ... <amount>
\* euros|€" on one line, fija_renta is the amount with its periods removed, a string
\* of digits only; otherwise fija_renta is None.
C12_RentaDigitsOnly ==
    pc = "parse_cuantias" =>
        \A s \in RentaSentences :
            text = RentaText(s) =>
                IF StatesRenta(s)
                THEN /\ result.fija_renta = Remove(RentaAmounts[s.amount], ".")
                     /\ DigitsOnly(result.fija_renta)
                ELSE result.fija_renta = None


\* C13: for a text whose sections are the heading lines REQUISITOS, CUANTÍAS and PLAZO
\* with the bodies of the scenario, the record assembled from the mapping that
\* locate_sections wrote has matriculacion_minima = {"Bachillerato": "4 asignaturas."},
\* fija_renta = "1700" and plazo_presentacion_fin = "15 de octubre de 2024".
C13_EndToEnd ==
    pc = "parsed" /\ data = found_sections =>
        /\ final_info.requisitos.matriculacion_minima
              = [t \in {"Bachillerato"} |-> "4 asignaturas."]
        /\ final_info.cuantias.fija_renta = "1700"
        /\ final_info.plazo.plazo_presentacion_fin = "15 de octubre de 2024"

\* the record of the scenario as written in the spec was assembled, and the words
\* "cuantía" and "plazo" of the bodies were matched as headings too: five headings
C13_Witness ==
    /\ pc = "parsed"
    /\ data = found_sections
    /\ text = ScenarioText(1, [k \in 1..3 |-> k])
    /\ Len(matches) = 5
    /\ final_info.cuantias.fija_renta = "1700"


---------------------------------------------------------------------------
(* Properties of the batch loops *)

\* the entries of the listing that the script takes
SelectedEntries == {k \in DOMAIN listing : Selected(stage, listing[k].name)}

\* the output file of entry k of the listing is in the output folder
HasOutput(k) == OutputName(stage, listing[k].name) \in DOMAIN outputs

\* C14 as claimed: in every batch loop, no failure of one document ends the loop, and
\* when the loop ends every document that can be read has its output written.
C14_FailureNeverEndsLoop ==
    /\ pc # "aborted"
    /\ pc = "finished" =>
          \A k \in SelectedEntries : listing[k].kind = "ok" => HasOutput(k)

\* the message of a file that fitz.open could not open was printed
Reported(k) == \E n \in DOMAIN log : log[n].file = listing[k].name

\* C15 as claimed: when process_all_pdfs ends, every PDF that could not be opened was
\* reported and has no output file, and every other PDF has one.
C15_UnreadablePdfSkipped ==
    stage = "extract_text" /\ pc = "finished" =>
        \A k \in SelectedEntries :
            IF listing[k].kind = "ok" THEN HasOutput(k)
            ELSE Reported(k) /\ ~HasOutput(k)

SummaryStages ==
    {"generate_summary_exp1", "generate_summary_exp2", "generate_summary_exp3",
     "generate_summary_exp4"}

ModelNames ==
    {"summarizer", "ai_summarizer", "translator_es_en", "english_summarizer",
     "translator_en_es"}

\* the models whose failure on the file was printed
FailedModels(filename) ==
    {log[n].error : n \in {m \in DOMAIN log : log[m].file = filename}} \cap ModelNames

NarrativeOf(filename) == NarrativeSummary([name |-> filename, kind |-> "ok"])

\* C16: in the summary scripts no model's exception ends the loop; a document on which
\* a model raised has its output file, whose text holds nothing computed by a model
\* that raised and is the placeholder in exp1, the narrative summary in exp2, the
\* refined narrative summary in exp3 and, when all three models raised, the
\* narrative summary in exp4.
C16_ModelFailureFallback ==
    stage \in SummaryStages =>
        /\ error \notin ModelNames
        /\ \A k \in DOMAIN listing :
              LET filename == listing[k].name
                  failed == FailedModels(filename)
                  written == outputs[OutputName(stage, filename)]
              IN  failed # {} =>
                    /\ HasOutput(k)
                    /\ \A m \in failed : ~Contains(written, m \o "(")
                    /\ stage = "generate_summary_exp1" =>
                          written = "Error generando el resumen."
                    /\ stage = "generate_summary_exp2" => written = NarrativeOf(filename)
                    /\ stage = "generate_summary_exp3" =>
                          written = Computed("refine_text", NarrativeOf(filename))
                    /\ stage = "generate_summary_exp4"
                       /\ failed = {"translator_es_en", "english_summarizer",
                                    "translator_en_es"}
                          => written = NarrativeOf(filename)

\* in exp4 the three models raised on a document, whose narrative summary was written,
\* and the loop went on to its end
C16_Witness ==
    /\ stage = "generate_summary_exp4"
    /\ pc = "finished"
    /\ \E k \in DOMAIN listing :
          /\ k < Len(listing)
          /\ Cardinality(FailedModels(listing[k].name)) = 3
          /\ outputs[OutputName(stage, listing[k].name)] = NarrativeOf(listing[k].name)


---------------------------------------------------------------------------
(* Properties of the text normalizer of src/extract_text.py *)

\* one of the five markers occurs in the line, in the case it is written in
HoldsMarker(line) ==
    \/ Contains(line, "CSV : GEN-")
    \/ Contains(line, Str("DIRECCIÓN DE VALIDACIÓN"))
    \/ Contains(line, "FIRMANTE(")
    \/ Contains(line, "FECHA :")
    \/ Contains(line, "NOTAS :")

\* the numbers of the lines of the text that hold no marker
KeptLines(txt) ==
    {k \in DOMAIN Split(txt, "\n") : ~HoldsMarker(Split(txt, "\n")[k])}

\* the j-th smallest number of a set of numbers
Nth(S, j) == CHOOSE k \in S : Cardinality({m \in S : m <= k}) = j

\* C17: remove_signature_lines returns the lines of its input that hold none of the
\* five markers, matched in their case, in their order and as they are, joined by
\* line breaks; the empty string when no line is left.
C17_MarkerLinesDropped ==
    pc = "remove_signature_lines" =>
        LET lines == Split(text, "\n")
            kept == KeptLines(text)
            returned == Split(result, "\n")
        IN  IF kept = {} THEN result = ""
            ELSE /\ Len(returned) = Cardinality(kept)
                 /\ \A j \in DOMAIN returned : returned[j] = lines[Nth(kept, j)]

\* a line with a marker was dropped, and a line with the marker in lower case was kept
C17_Witness ==
    /\ pc = "remove_signature_lines"
    /\ Cardinality(KeptLines(text)) < Len(Split(text, "\n"))
    /\ Contains(result, "fecha :")

\* the lines of the paragraph that are not blank, stripped
NonBlankLines(paragraph) ==
    LET lines == Split(paragraph, "\n")
        kept == {k \in DOMAIN lines : Strip(lines[k]) # ""}
    IN  [j \in 1..Cardinality(kept) |-> Strip(lines[Nth(kept, j)])]

\* the lines from the k-th on, a line that ends with a hyphen losing it and being
\* followed by the next line at once, any other line by a space and the next line
RECURSIVE Dehyphenated(_, _)
Dehyphenated(lines, k) ==
    IF k > Len(lines) THEN ""
    ELSE LET hyphen == EndsWith(lines[k], "-")
             line == IF hyphen THEN Slice(lines[k], 0, Len(lines[k]) - 1) ELSE lines[k]
         IN  line \o (IF k < Len(lines) /\ ~hyphen THEN " " ELSE "")
             \o Dehyphenated(lines, k + 1)

\* C18 as claimed: clean_paragraph joins the non-blank lines with one space, except
\* that a line ending with a hyphen loses it and the next line follows without a space.
C18_HyphenRejoinsWord ==
    pc = "clean_paragraph" => result = Dehyphenated(NonBlankLines(text), 1)

\* no line of the text holds a marker
NoMarkerLine(txt) == KeptLines(txt) = DOMAIN Split(txt, "\n")

\* no line of the text ends with a hyphen
NoHyphenLine(txt) ==
    \A k \in DOMAIN Split(txt, "\n") : ~EndsWith(Strip(Split(txt, "\n")[k]), "-")

\* C19 as claimed: a text without marker line and without line ending in a hyphen is
\* left unchanged by the normalizer, and so is every text the normalizer returned.
C19_IdempotentOnOutputs ==
    /\ (pc \in {"extract_text_from_pdf", "extracted_again"}
        /\ NoMarkerLine(text) /\ NoHyphenLine(text)) => result = text
    /\ pc = "extracted_again" => result = text


---------------------------------------------------------------------------
(* Properties of documents processed at once *)

\* C20: whatever the order and the interleaving of the steps taken for the documents,
\* the mapping locate_sections returns for a document and the record main assembles
\* from it are those of the document processed alone: functions of its text only.
C20_DocumentsIndependent ==
    \A d \in Documents :
        LET c == calls.local[d]
        IN  /\ c.pc \in {"located", "parsed"} =>
                  calls.found[d] = locate_sections(c.text)
            /\ c.pc = "parsed" => c.final_info = Assemble(locate_sections(c.text))
            /\ c.pc # "raised"

\* a document is parsed, with percentages per branch found, while the call for the
\* other document, of another text, is between two turns of its loop
C20_Witness ==
    \E d \in Documents : \E o \in Documents \ {d} :
        /\ calls.local[d].pc = "parsed"
        /\ "porcentajes_por_rama" \in DOMAIN calls.local[d].final_info.requisitos
        /\ calls.local[o].pc = "loop"
        /\ calls.local[o].i > 0
        /\ calls.local[o].i < Len(calls.local[o].matches)
        /\ calls.local[o].text # calls.local[d].text
        /\ calls.found[o] # calls.found[d]


---------------------------------------------------------------------------
(* Properties of the names of the output files *)

\* the offset of the last period of the name, -1 when it has none
RECURSIVE LastPeriod(_, _)
LastPeriod(name, k) ==
    IF k = 0 THEN -1
    ELSE IF SubSeq(name, k, k) = "." THEN k - 1
    ELSE LastPeriod(name, k - 1)

\* the base name of a file: the name without its extension
BaseName(name) ==
    IF LastPeriod(name, Len(name)) = -1 THEN name
    ELSE Slice(name, 0, LastPeriod(name, Len(name)))

\* the extension of the files a stage writes
OutputExtension(s) == IF s = "extract_text" THEN ".txt" ELSE ".json"

\* the files of the listing the loop has taken and written an output for
Written ==
    {k \in 1..position : Selected(stage, listing[k].name)}

\* C21 as claimed: in the loops of extract_text and locate_sections, every selected
\* input has its output under its base name with the stage's output extension, there
\* is one output per input, and distinct inputs have distinct outputs.
C21_OutputUnderBaseName ==
    stage \in {"extract_text", "locate_sections"} =>
        /\ \A k \in Written :
              BaseName(listing[k].name) \o OutputExtension(stage) \in DOMAIN outputs
        /\ Cardinality(DOMAIN outputs) = Cardinality(Written)


---------------------------------------------------------------------------
(* Properties of parse_requisitos on bullets of any shape *)

\* the bullet markers the texts are written with
MarkerForms == {Str("1.º)"), Str("2.º)")}

\* the offsets of the text where a marker starts
MarkerStarts(txt) ==
    {k \in 0..(Len(txt) - 4) : Slice(txt, k, k + 4) \in MarkerForms}

\* the number of bullets of the text
BulletCount(txt) == Cardinality(MarkerStarts(txt))

\* the marker of the j-th bullet, and its body: the text from the marker up to the
\* next marker or the end of the text, white space at its ends stripped
MarkerOf(txt, j) == Slice(txt, Nth(MarkerStarts(txt), j), Nth(MarkerStarts(txt), j) + 4)

BodyOf(txt, j) ==
    Strip(Slice(txt, Nth(MarkerStarts(txt), j) + 4,
                IF j < BulletCount(txt) THEN Nth(MarkerStarts(txt), j + 1) ELSE Len(txt)))

\* the first line of a body
FirstLineOf(body) == Split(body, "\n")[1]

\* the body has a colon in its first line
HasColon(body) == Contains(FirstLineOf(body), ":")

\* the title of a body with a colon, and what follows the colon: the rest of the
\* first line and the lines after it
TitleOfBody(body) == Strip(Split(FirstLineOf(body), ":")[1])

AfterColon(body) ==
    LET first == FirstLineOf(body)
        rest == Slice(body, Len(first), Len(body))
    IN  Strip(Slice(first, Len(Split(first, ":")[1]) + 1, Len(first))) \o rest

\* the key a bullet is stored under
KeyOf(txt, j) ==
    IF HasColon(BodyOf(txt, j)) THEN TitleOfBody(BodyOf(txt, j)) ELSE MarkerOf(txt, j)

\* no later bullet of the text has the key of the j-th
LastOfItsKey(txt, j) ==
    \A h \in (j + 1)..BulletCount(txt) : KeyOf(txt, h) # KeyOf(txt, j)

\* a value as stored: "CAPÍTULO III" removed, white space at the ends stripped
Stored(value) == Strip(Remove(value, Str("CAPÍTULO III")))

\* C22 as claimed: for a bullet with a title, the value stored under the title is the
\* whole body after the colon, up to the next marker or the end of the text, the
\* lines after the first included.
C22_WholeBodyStored ==
    pc = "parse_requisitos" =>
        \A j \in 1..BulletCount(text) :
            HasColon(BodyOf(text, j)) /\ LastOfItsKey(text, j) =>
                /\ TitleOfBody(BodyOf(text, j)) \in DOMAIN result.matriculacion_minima
                /\ result.matriculacion_minima[TitleOfBody(BodyOf(text, j))]
                       = Stored(AfterColon(BodyOf(text, j)))

\* C23 as claimed: a bullet without colon is stored under its marker with its whole
\* body, an empty bullet under its marker with the empty string, and the keys of the
\* result are the keys of the bullets of the text.
C23_MarkerKeyedWholeBody ==
    pc = "parse_requisitos" =>
        /\ \A j \in 1..BulletCount(text) :
              ~HasColon(BodyOf(text, j)) /\ LastOfItsKey(text, j) =>
                  /\ MarkerOf(text, j) \in DOMAIN result.matriculacion_minima
                  /\ result.matriculacion_minima[MarkerOf(text, j)]
                         = Stored(BodyOf(text, j))
        /\ DOMAIN result.matriculacion_minima
               = {KeyOf(text, j) : j \in 1..BulletCount(text)}


---------------------------------------------------------------------------
(* Properties of parse_excelencia and of the percentages of parse_cuantias *)

\* the string starts with a digit and holds digits, periods and commas only
NumberAsWritten(str) ==
    /\ Len(str) > 0
    /\ SubSeq(str, 1, 1) \in DigitSet
    /\ \A k \in 1..Len(str) : SubSeq(str, k, k) \in DigitSet \cup {".", ","}

\* the two amounts are both None or both set
RangeTogether ==
    (result.excelencia_cuantia_min = None) <=> (result.excelencia_cuantia_max = None)

\* C24 as claimed: each of the three values parse_excelencia returns is None or a
\* string of digits only, and the two amounts are both None or both set.
C24_PlainDigitStrings ==
    pc = "parse_excelencia" =>
        /\ \A key \in DOMAIN result : result[key] = None \/ DigitsOnly(result[key])
        /\ RangeTogether

\* C24: the two amounts parse_excelencia returns are None or strings of digits only,
\* both None or both set; the minimum grade is None or the number as the text writes
\* it, its periods and commas kept.
C24_AmountsPlainGradeAsWritten ==
    pc = "parse_excelencia" =>
        /\ \A key \in {"excelencia_cuantia_min", "excelencia_cuantia_max"} :
              result[key] = None \/ DigitsOnly(result[key])
        /\ RangeTogether
        /\ \/ result.nota_minima_excelencia = None
           \/ /\ NumberAsWritten(result.nota_minima_excelencia)
              /\ Contains(text, result.nota_minima_excelencia)

\* a grade with a comma and a range whose amounts have a period and a comma were parsed
C24_Witness ==
    /\ pc = "parse_excelencia"
    /\ result.nota_minima_excelencia = "8,00"
    /\ result.excelencia_cuantia_min = "1500"
    /\ result.excelencia_cuantia_max = "125075"


\* the five keys of porcentajes_por_rama
CanonicalRamas ==
    {"artes_humanidades", "ciencias_sociales_juridicas", "ciencias_de_la_salud",
     "ingenieria_arquitectura_tecnicas", "ciencias"}

\* the key of the category of each name of RamaNames
CategoryOf ==
    <<"artes_humanidades", "ciencias_sociales_juridicas", "ciencias_de_la_salud",
      "ingenieria_arquitectura_tecnicas", "ciencias", "ciencias_de_la_salud">>

\* the value of each percentage of RamaPercentages
PercentageOf == <<9, 80>>

\* the branches of a text of items, in their order
RamasOf(txt) ==
    IF txt = "" THEN <<>>
    ELSE [k \in DOMAIN Split(txt, ", ") |->
             CHOOSE r \in [name : 1..Len(RamaNames), porc : 1..Len(RamaPercentages)] :
                 Split(txt, ", ")[k] = RamaItem(r)]

\* the numbers of the branches of the list that are of the category
OfCategory(rl, key) == {k \in DOMAIN rl : CategoryOf[rl[k].name] = key}

---------------------------------------------------------------------------
(* Properties of the synonyms of SECTIONS *)

\* the section that lists the synonym
SectionListing(syn) ==
    CHOOSE key \in DOMAIN SECTIONS : \E j \in DOMAIN SECTIONS[key] : SECTIONS[key][j] = syn

\* C26 as claimed: a synonym of a section, standing as the heading of the document,
\* is matched as one heading, and the text from it to the end is added to the section
\* that lists it and to no other.
C26_SynonymOpensItsSection ==
    pc = "located" =>
        \A lead \in DOMAIN SynonymLeads, k \in DOMAIN all_titles, form \in 1..2 :
            text = SynonymText(lead, k, form) =>
                /\ Len(matches) = 1
                /\ \A key \in DOMAIN found_sections :
                      found_sections[key][1].content =
                          IF key = SectionListing(all_titles[k])
                          THEN "\n\n" \o SynonymHeading(k, form) \o "\n" \o SynonymBody
                          ELSE ""


---------------------------------------------------------------------------
(* Properties of the narrative summary and of the fallback of the summary scripts *)

OccursOnce(s, sub) ==
    LET a == Find(s, sub)
    IN  a # -1 /\ Find(Slice(s, a + 1, Len(s)), sub) = -1

\* one of the two sentences stands in s, once
OneOfTwo(s, one, other) ==
    \/ OccursOnce(s, one) /\ Find(s, other) = -1
    \/ OccursOnce(s, other) /\ Find(s, one) = -1

\* the field of a section of the record read, None when the section or the field is
\* missing
FieldOfRecord(section, field) ==
    LET value == Get(data, section, Dict(<<>>))
    IN  IF value.tag = "dict" THEN Get(value.items, field, None) ELSE None

\* the four optional sentences in their order: how each opens, and whether the
\* record holds what it tells
OptionalOpeners ==
    <<"Entre los requisitos se exige: ",
      Str("Asimismo, se establecen porcentajes mínimos por rama: "),
      Str("En términos económicos, la convocatoria dispone cuantías tales como "),
      Str("Además, se contemplan incentivos de excelencia, por ejemplo, ")>>

OptionalHeld ==
    <<TruthyDict(Get(Get(data, "requisitos", Dict(<<>>)).items, "matriculacion_minima", Dict(<<>>))),
      TruthyDict(Get(Get(data, "requisitos", Dict(<<>>)).items, "porcentajes_por_rama", Dict(<<>>))),
      TruthyDict(Get(data, "cuantias", Dict(<<>>))),
      TruthyDict(Get(data, "excelencia", Dict(<<>>)))>>

DeadlineStated == Str("La convocatoria de beca establece que la fecha límite para presentar la solicitud es el ")
DeadlineMissing == Str("La convocatoria no especifica una fecha límite para la presentación de la solicitud.")
VenueStated == Str("Los interesados deberán presentar la solicitud en: ")
VenueMissing == "No se especifica el lugar para presentar la solicitud."

\* the venue is one parse_solicitud returned
FromParseSolicitud(venue) ==
    \E k \in DOMAIN SolicitudTexts : venue = parse_solicitud(SolicitudTexts[k]).donde_presentar

---------------------------------------------------------------------------
(* Properties of the chunks of extract_info_with_qa *)

\* the sentences from the one after a to b, joined as a chunk holds them
SentencesJoined(a, b) == Join(SubSeq(listing, a + 1, b), " ")

\* the chunks are the sentences in their order, cut after the sentences of cuts, each
\* chunk holding one sentence at least
ChunksCutAt(cuts) ==
    LET n == Len(listing)
        ends == [k \in 1..(Cardinality(cuts) + 1) |->
                    IF k = Cardinality(cuts) + 1 THEN n
                    ELSE CHOOSE c \in cuts : Cardinality({d \in cuts : d < c}) = k - 1]
    IN  /\ Len(outputs) = Cardinality(cuts) + 1
        /\ \A k \in DOMAIN outputs :
              outputs[k] = SentencesJoined(IF k = 1 THEN 0 ELSE ends[k - 1], ends[k])

\* C29 as claimed: for a text of more than 512 characters every sentence is in one
\* chunk and no more, the sentences keep their order, no chunk is empty and every
\* chunk has fewer than 512 characters; a text of at most 512 characters is the
\* one chunk.
C29_ChunksPartitionSentences ==
    pc = "chunked" =>
        IF Len(text) > max_length
        THEN /\ \E cuts \in SUBSET (1..(Len(listing) - 1)) : ChunksCutAt(cuts)
             /\ \A k \in DOMAIN outputs : outputs[k] # "" /\ Len(outputs[k]) < max_length
        ELSE outputs = <<text>>


---------------------------------------------------------------------------
(* Properties of spacy_extractor *)

EntityLists == {"FECHAS", "DINERO", "ORG"}

\* the entries a list holds by the record of the entities gone through: those of the
\* entities appended to it, in their order
AppendedTo(list) ==
    LET went == SelectSeq(blocks, LAMBDA b : b.list = list)
    IN  [k \in DOMAIN went |->
            [entidad |-> listing[went[k].sent].ents[went[k].ent].text,
             tipo |-> listing[went[k].sent].ents[went[k].ent].label]]

\* C30: at every point of spacy_extractor each of the lists FECHAS, DINERO and ORG
\* holds max_entities items at most and as many as its counter says; an entity gone
\* through is in one list at most; FECHAS holds entities labelled DATE only and ORG
\* entities labelled ORG only; frases_accion holds 8 items at most, each with 2
\* verbs at most.
C30_ListsWithinLimits ==
    stage = "txt2json" =>
        /\ \A list \in EntityLists :
              /\ Len(found_sections[list]) <= final_info.max_entities
              /\ data[list] = Len(found_sections[list])
              /\ [k \in DOMAIN found_sections[list] |->
                     [entidad |-> found_sections[list][k].entidad,
                      tipo |-> found_sections[list][k].tipo]] = AppendedTo(list)
        /\ \A k \in DOMAIN blocks, j \in DOMAIN blocks :
              blocks[k].sent = blocks[j].sent /\ blocks[k].ent = blocks[j].ent => k = j
        /\ \A k \in DOMAIN found_sections["FECHAS"] : found_sections["FECHAS"][k].tipo = "DATE"
        /\ \A k \in DOMAIN found_sections["ORG"] : found_sections["ORG"][k].tipo = "ORG"
        /\ Len(outputs) <= 8
        /\ \A k \in DOMAIN outputs : Len(outputs[k].verbos) <= 2
        /\ pc = "returned" =>
              /\ \A list \in EntityLists :
                    Len(result.entidades[list]) <= final_info.max_entities
              /\ Len(result.frases_accion) <= 8

\* the call returned with a list full, an entity with its label left out of it, 8
\* phrases, and sentences with verbs left over
C30_Witness ==
    /\ stage = "txt2json"
    /\ pc = "returned"
    /\ final_info.max_entities > 0
    /\ \E list \in EntityLists : Len(found_sections[list]) = final_info.max_entities
    /\ \E k \in DOMAIN blocks :
          /\ blocks[k].list = None
          /\ listing[blocks[k].sent].ents[blocks[k].ent].label \in {"DATE", "ORG"}
    /\ Len(outputs) = 8
    /\ position <= Len(listing)
    /\ \E k \in DOMAIN outputs : Len(outputs[k].verbos) = 2

=============================================================================
